---- MODULE Spec2Model ----
(***************************************************************************)
(* A model of the columnar data engine of US-Accidents-Analytics           *)
(* (src/app/functions.py): the CSV readers (read_csv, read_csv_parallel    *)
(* and its workers _parse_csv_chunk) and the DataFrame operations.         *)
(*                                                                         *)
(* Text is a sequence of one-character strings.  A Python value is a       *)
(* record [t, v]: None, an int, a float (a fraction) or a str.  A Python   *)
(* dict is a sequence of <<key, value>> pairs with distinct keys, in       *)
(* insertion order.                                                        *)
(***************************************************************************)
EXTENDS Integers, Sequences, FiniteSets, TLC

VARIABLES
    file,       \* the bytes of the CSV file being read
    skip,       \* skip_type_inference of the readers
    pc,         \* "idle" | "parsing" (workers running) | "done"
    call,       \* the reader call in progress or just finished
    tasks,      \* read_csv_parallel: the starmap task list
    results,    \* read_csv_parallel: worker index -> chunk dict, or Pending
    out,        \* outcome of the last finished call
    prev,       \* outcome of the last finished read_csv_parallel call before it
    heap,       \* object id -> dict or list object (DataFrame storage)
    src,        \* the DataFrame the last operation was called on
    rhs,        \* the right-hand DataFrame of a join
    op,         \* the last DataFrame operation and its arguments
    res,        \* its outcome: a DataFrame or an error
    fn,         \* the function last applied to text: "none" before the call
    text,       \* the text it was applied to
    ret,        \* what it returned
    exists,     \* dataset -> whether its file is on disk
    cache,      \* dataset -> the Table its lru_cache holds (0: empty)
    parses,     \* dataset -> how many times read_csv_parallel ran on its file
    data_loaded,    \* the module global _data_loaded
    loading_error,  \* the module global _loading_error
    phase,      \* "off" | "startup" | "serving"
    thr,        \* request thread -> its position in a cached loader call
    status      \* the last response of /status

csvVars == <<file, skip, pc, call, tasks, results, out, prev>>
dfVars == <<heap, src, rhs, op, res>>
fnVars == <<fn, text, ret>>
srvVars == <<exists, cache, parses, data_loaded, loading_error, phase, thr, status>>
vars == <<file, skip, pc, call, tasks, results, out, prev, heap, src, rhs, op, res,
          fn, text, ret, exists, cache, parses, data_loaded, loading_error, phase,
          thr, status>>

----------------------------------------------------------------------------
(* Bounds of the model *)

MaxRecords == 3
MaxWorkers == 3

----------------------------------------------------------------------------
(* Python values *)

PyNone == [t |-> "null", v |-> 0]
PyInt(n) == [t |-> "int", v |-> n]
PyStr(s) == [t |-> "str", v |-> s]

RECURSIVE SumSeq(_)
SumSeq(s) == IF s = <<>> THEN 0 ELSE Head(s) + SumSeq(Tail(s))

Min2(a, b) == IF a < b THEN a ELSE b
Max2(a, b) == IF a > b THEN a ELSE b

(* Python dicts: insertion-ordered <<key, value>> pairs *)

DictKeys(d) == [i \in 1..Len(d) |-> d[i][1]]
DictHas(d, k) == \E i \in 1..Len(d) : d[i][1] = k
DictGet(d, k) == d[CHOOSE i \in 1..Len(d) : d[i][1] = k][2]
DictSet(d, k, val) ==
    IF DictHas(d, k)
    THEN [i \in 1..Len(d) |-> IF d[i][1] = k THEN <<k, val>> ELSE d[i]]
    ELSE Append(d, <<k, val>>)

\* {col: [] for col in columns}
RECURSIVE EmptyColumns(_)
EmptyColumns(columns) ==
    IF columns = <<>> THEN <<>>
    ELSE DictSet(EmptyColumns(SubSeq(columns, 1, Len(columns) - 1)),
                 columns[Len(columns)], <<>>)

InSeq(x, s) == \E i \in 1..Len(s) : s[i] = x

----------------------------------------------------------------------------
(* Text helpers *)

NL == "\n"
Whitespace == {" ", "\t", "\n", "\r"}
Digits == {"0", "1", "2", "3", "4", "5", "6", "7", "8", "9"}

DigitVal(c) ==
    CASE c = "0" -> 0 [] c = "1" -> 1 [] c = "2" -> 2 [] c = "3" -> 3
      [] c = "4" -> 4 [] c = "5" -> 5 [] c = "6" -> 6 [] c = "7" -> 7
      [] c = "8" -> 8 [] c = "9" -> 9

\* str.strip()
RECURSIVE LStrip(_)
LStrip(s) == IF s # <<>> /\ Head(s) \in Whitespace THEN LStrip(Tail(s)) ELSE s
RECURSIVE RStrip(_)
RStrip(s) ==
    IF s # <<>> /\ s[Len(s)] \in Whitespace
    THEN RStrip(SubSeq(s, 1, Len(s) - 1)) ELSE s
Strip(s) == RStrip(LStrip(s))

\* f.readline() at byte offset pos: the text up to and including the next
\* newline (or up to the end of the file), and the offset after it.
ReadLine(f, pos) ==
    IF pos >= Len(f) THEN [line |-> <<>>, pos |-> pos]
    ELSE IF \E j \in (pos + 1)..Len(f) : f[j] = NL
         THEN LET j == CHOOSE k \in (pos + 1)..Len(f) :
                            /\ f[k] = NL
                            /\ \A m \in (pos + 1)..(k - 1) : f[m] # NL
              IN [line |-> SubSeq(f, pos + 1, j), pos |-> j]
         ELSE [line |-> SubSeq(f, pos + 1, Len(f)), pos |-> Len(f)]

----------------------------------------------------------------------------
(* parse_csv_line *)

RECURSIVE ParseLoop(_, _, _, _, _, _)
ParseLoop(line, separator, i, fields, current_field, in_quotes) ==
    IF i > Len(line) THEN Append(fields, current_field)
    ELSE LET char == line[i] IN
         IF char = "\""
         THEN IF in_quotes /\ i + 1 <= Len(line) /\ line[i + 1] = "\""
              THEN ParseLoop(line, separator, i + 2, fields,
                             Append(current_field, "\""), in_quotes)
              ELSE ParseLoop(line, separator, i + 1, fields, current_field,
                             ~in_quotes)
         ELSE IF char = separator /\ ~in_quotes
              THEN ParseLoop(line, separator, i + 1,
                             Append(fields, current_field), <<>>, in_quotes)
              ELSE ParseLoop(line, separator, i + 1, fields,
                             Append(current_field, char), in_quotes)

\* a split at every separator, quoted or not
SplitEverywhere(line, separator) ==
    LET cuts == <<0>> \o SelectSeq([i \in 1..Len(line) |-> i],
                                   LAMBDA i : line[i] = separator)
                     \o <<Len(line) + 1>>
    IN [k \in 1..(Len(cuts) - 1) |-> SubSeq(line, cuts[k] + 1, cuts[k + 1] - 1)]

parse_csv_line(line, separator) ==
    ParseLoop(line, separator, 1, <<>>, <<>>, FALSE)

----------------------------------------------------------------------------
(* infer_type *)

\* int(value) / float(value) succeed on these shapes of text (the shapes the
\* characters of the model can form: an optional sign and decimal digits,
\* with one "." for a float).
RECURSIVE AllDigits(_)
AllDigits(s) == s = <<>> \/ (Head(s) \in Digits /\ AllDigits(Tail(s)))
Unsigned(s) == IF s # <<>> /\ Head(s) = "-" THEN Tail(s) ELSE s
IntParses(s) == Unsigned(s) # <<>> /\ AllDigits(Unsigned(s))
RECURSIVE DigitsValue(_)
DigitsValue(s) ==
    IF s = <<>> THEN 0
    ELSE 10 * DigitsValue(SubSeq(s, 1, Len(s) - 1)) + DigitVal(s[Len(s)])
IntValue(s) ==
    IF Head(s) = "-" THEN 0 - DigitsValue(Unsigned(s)) ELSE DigitsValue(s)
DotCount(s) == Cardinality({i \in 1..Len(s) : s[i] = "."})
WithoutDots(s) == SelectSeq(s, LAMBDA c : c # ".")
FloatParses(s) ==
    /\ DotCount(Unsigned(s)) <= 1
    /\ WithoutDots(Unsigned(s)) # <<>>
    /\ AllDigits(WithoutDots(Unsigned(s)))
\* a float is kept as the fraction <<num, den>> in lowest terms, den > 0
RECURSIVE Gcd(_, _)
Gcd(a, b) == IF b = 0 THEN a ELSE Gcd(b, a % b)
Abs(n) == IF n < 0 THEN 0 - n ELSE n
PyFloat(num, den) ==
    LET g == Gcd(Abs(num), den)
    IN [t |-> "float", v |-> <<num \div g, den \div g>>]
RECURSIVE Pow10(_)
Pow10(k) == IF k = 0 THEN 1 ELSE 10 * Pow10(k - 1)
FractionDigits(s) ==
    IF InSeq(".", s) THEN Len(s) - (CHOOSE i \in 1..Len(s) : s[i] = ".") ELSE 0
FloatValue(s) ==
    LET m == DigitsValue(WithoutDots(Unsigned(s)))
    IN PyFloat(IF Head(s) = "-" THEN 0 - m ELSE m, Pow10(FractionDigits(s)))

\* no inference: the text as it is, None for the empty text
KeepText(value) == IF value = <<>> THEN PyNone ELSE PyStr(value)

infer_type(value) ==
    IF value = <<>> THEN PyNone
    ELSE IF \/ value[1] \in Digits
            \/ (Len(value) > 1 /\ value[1] = "-" /\ value[2] \in Digits)
         THEN IF ~InSeq(".", value)
              THEN IF IntParses(value) THEN PyInt(IntValue(value))
                   ELSE PyStr(value)
              ELSE IF FloatParses(value) THEN FloatValue(value) ELSE PyStr(value)
         ELSE PyStr(value)

\* the value a reader stores for one field
StoredValue(field, skip_type_inference) ==
    IF skip_type_inference
    THEN IF field # <<>> THEN PyStr(field) ELSE PyNone
    ELSE infer_type(field)

----------------------------------------------------------------------------
(* DataFrame.__init__(data) for a dict of lists, by value.  An outcome is   *)
(* [err, arg, columns, data]: err = "none" for a DataFrame.                 *)

Raise(exc, name) == [err |-> exc, arg |-> name, columns |-> <<>>, data |-> <<>>]
IsDF(o) == o.err = "none"

DataFrame(data) ==
    IF Cardinality({Len(data[i][2]) : i \in 1..Len(data)}) > 1
    THEN Raise("ValueError", <<>>)
    ELSE [err |-> "none", arg |-> <<>>, columns |-> DictKeys(data), data |-> data]

\* DataFrame.__len__
DFLen(df) == IF df.data = <<>> THEN 0 ELSE Len(df.data[1][2])

----------------------------------------------------------------------------
(* Python comparison of values *)

\* float('inf'): the fraction with denominator 0
PyInf == [t |-> "float", v |-> <<1, 0>>]
IsNum(a) == a.t \in {"int", "float"}
Num(a) == IF a.t = "int" THEN <<a.v, 1>> ELSE a.v
NumEq(a, b) == Num(a)[1] * Num(b)[2] = Num(b)[1] * Num(a)[2]
NumLt(a, b) == Num(a)[1] * Num(b)[2] < Num(b)[1] * Num(a)[2]

\* a == b
PyEq(a, b) ==
    IF IsNum(a) /\ IsNum(b) THEN NumEq(a, b)
    ELSE a.t = b.t /\ a.v = b.v

\* the characters of the model in code-point order
CharOrder ==
    << "\t", "\n", "\r", " ", "\"", "+", ",", "-", ".",
       "0", "1", "2", "3", "4", "5", "6", "7", "8", "9",
       "U", "_", "a", "b", "c", "f", "g", "h", "i", "k", "n", "o", "r", "t",
       "u", "w", "x", "y", "z" >>
CharCode(c) == CHOOSE i \in 1..Len(CharOrder) : CharOrder[i] = c
RECURSIVE TextLt(_, _)
TextLt(x, y) ==
    IF y = <<>> THEN FALSE
    ELSE IF x = <<>> THEN TRUE
    ELSE IF Head(x) = Head(y) THEN TextLt(Tail(x), Tail(y))
    ELSE CharCode(Head(x)) < CharCode(Head(y))

\* a < b: "lt", "ge", or "err" for a TypeError
PyLt(a, b) ==
    IF IsNum(a) /\ IsNum(b) THEN (IF NumLt(a, b) THEN "lt" ELSE "ge")
    ELSE IF a.t = "str" /\ b.t = "str"
         THEN (IF TextLt(a.v, b.v) THEN "lt" ELSE "ge")
         ELSE "err"

\* tuple == tuple and tuple < tuple
TupleEq(x, y) == Len(x) = Len(y) /\ \A i \in 1..Len(x) : PyEq(x[i], y[i])
TupleLt(x, y) ==
    LET diff == {i \in 1..Min2(Len(x), Len(y)) : ~PyEq(x[i], y[i])}
    IN IF diff = {} THEN (IF Len(x) < Len(y) THEN "lt" ELSE "ge")
       ELSE LET i == CHOOSE m \in diff : \A q \in diff : m <= q
            IN PyLt(x[i], y[i])

\* v is not None and v != ''
Present(a) == a.t # "null" /\ ~(a.t = "str" /\ a.v = <<>>)

\* lst[start:] and lst[:stop] with Python's negative indices and clamping
SliceIndex(k, n) == IF k < 0 THEN Max2(n + k, 0) ELSE Min2(k, n)
SliceFrom(lst, start) == SubSeq(lst, SliceIndex(start, Len(lst)) + 1, Len(lst))
SliceTo(lst, stop) == SubSeq(lst, 1, SliceIndex(stop, Len(lst)))

\* {col: f(self.data[col]) for col in columns}, for a list of names
\* (a name listed twice keeps its first position, as a dict key does)
RECURSIVE Dedup(_)
Dedup(names) ==
    IF names = <<>> THEN <<>>
    ELSE LET front == Dedup(SubSeq(names, 1, Len(names) - 1))
         IN IF InSeq(names[Len(names)], front) THEN front
            ELSE Append(front, names[Len(names)])
DictOver(columns, data, F(_)) ==
    [i \in 1..Len(Dedup(columns)) |->
        <<Dedup(columns)[i], F(DictGet(data, Dedup(columns)[i]))>>]
\* {col: f(values) for col, values in self.data.items()}
MapValues(data, F(_)) == [i \in 1..Len(data) |-> <<data[i][1], F(data[i][2])>>]
Same(x) == x

FirstMissing(names, columns) ==
    names[CHOOSE i \in 1..Len(names) :
            /\ ~InSeq(names[i], columns)
            /\ \A q \in 1..(i - 1) : InSeq(names[q], columns)]
AnyMissing(names, columns) == \E i \in 1..Len(names) : ~InSeq(names[i], columns)

----------------------------------------------------------------------------
(* DataFrame operations, by value: self is [columns, data], the result an  *)
(* outcome.                                                                *)

head(self, n) == DataFrame(MapValues(self.data, LAMBDA vs : SliceTo(vs, n)))
tail(self, n) == DataFrame(MapValues(self.data, LAMBDA vs : SliceFrom(vs, 0 - n)))
shape(self) == <<DFLen(self), Len(self.columns)>>
copy(self) == DataFrame(MapValues(self.data, Same))

\* a row dict {col: self.data[col][i] for col in self.columns}
RowDict(self, i) ==
    DictOver(self.columns, self.data, LAMBDA vs : vs[i])

\* the conditions the model passes to filter
Holds(cond, row) ==
    CASE cond.kind = "all" -> TRUE
      [] cond.kind = "nothing" -> FALSE
      [] cond.kind = "eq" -> PyEq(DictGet(row, cond.column), cond.value)
      [] cond.kind = "notnull" -> DictGet(row, cond.column).t # "null"

\* every row, whatever the condition says
AllRows(self, cond) == [i \in 1..DFLen(self) |-> i]

KeptRows(self, cond) ==
    SelectSeq([i \in 1..DFLen(self) |-> i], LAMBDA i : Holds(cond, RowDict(self, i)))

\* appends to filtered_data[col] once for every entry of self.columns
RECURSIVE AppendRow(_, _, _, _)
AppendRow(d, self, i, k) ==
    IF k > Len(self.columns) THEN d
    ELSE AppendRow(DictSet(d, self.columns[k],
                       Append(DictGet(d, self.columns[k]),
                              DictGet(self.data, self.columns[k])[i])),
                   self, i, k + 1)
RECURSIVE AppendRows(_, _, _)
AppendRows(d, self, idx) ==
    IF idx = <<>> THEN d
    ELSE AppendRows(AppendRow(d, self, Head(idx), 1), self, Tail(idx))

\* the row lookup of a condition raises KeyError on the first row when the
\* row has no such column
filter(self, cond) ==
    IF /\ cond.kind \in {"eq", "notnull"}
       /\ ~InSeq(cond.column, self.columns)
       /\ DFLen(self) > 0
    THEN Raise("KeyError", cond.column)
    ELSE DataFrame(AppendRows(EmptyColumns(self.columns), self,
                              KeptRows(self, cond)))

\* filter_by_value without its column check
FilterUnchecked(self, column, value) ==
    filter(self, [kind |-> "eq", column |-> column, value |-> value])

filter_by_value(self, column, value) ==
    IF ~InSeq(column, self.columns) THEN Raise("KeyError", column)
    ELSE filter(self, [kind |-> "eq", column |-> column, value |-> value])

\* a projection that keeps the table's column order
SelectInTableOrder(self, columns) ==
    IF AnyMissing(columns, self.columns)
    THEN Raise("KeyError", FirstMissing(columns, self.columns))
    ELSE DataFrame(DictOver(SelectSeq(self.columns, LAMBDA c : InSeq(c, columns)),
                            self.data, Same))

select(self, columns) ==
    IF AnyMissing(columns, self.columns)
    THEN Raise("KeyError", FirstMissing(columns, self.columns))
    ELSE DataFrame(DictOver(columns, self.data, Same))

drop(self, columns) ==
    select(self, SelectSeq(self.columns, LAMBDA c : ~InSeq(c, columns)))

add_column(self, column_name, values) ==
    IF Len(values) # DFLen(self) THEN Raise("ValueError", <<>>)
    ELSE DataFrame(DictSet(DictOver(self.columns, self.data, Same),
                           column_name, values))

\* mapping is a dict old name -> new name
RECURSIVE RenameLoop(_, _, _, _)
RenameLoop(self, mapping, k, acc) ==
    IF k > Len(self.columns) THEN acc
    ELSE LET col == self.columns[k]
             name == IF DictHas(mapping, col) THEN DictGet(mapping, col) ELSE col
         IN RenameLoop(self, mapping, k + 1,
                [new_data |-> DictSet(acc.new_data, name, DictGet(self.data, col)),
                 new_columns |-> Append(acc.new_columns, name)])

rename_columns(self, mapping) ==
    LET r == RenameLoop(self, mapping, 1, [new_data |-> <<>>, new_columns |-> <<>>])
        result == DataFrame(r.new_data)
    IN IF IsDF(result) THEN [result EXCEPT !.columns = r.new_columns] ELSE result

fillna_column(self, column, value) ==
    IF ~InSeq(column, self.columns) THEN Raise("KeyError", column)
    ELSE LET new_data == DictOver(self.columns, self.data, Same)
         IN DataFrame(DictSet(new_data, column,
                [i \in 1..Len(DictGet(new_data, column)) |->
                    IF Present(DictGet(new_data, column)[i])
                    THEN DictGet(new_data, column)[i] ELSE value]))

\* int(v), float(v), str(v): the converted value, or NoValue for a
\* ValueError or TypeError.  Text is converted as int() and float() read an
\* optional sign and decimal digits (with one "." for a float).
NoValue == [t |-> "error", v |-> 0]
\* an OverflowError, which convert_value does not catch
Overflow == [t |-> "overflow", v |-> 0]
InfText == <<"i", "n", "f">>
Signless(s) == IF s # <<>> /\ Head(s) \in {"-", "+"} THEN Tail(s) ELSE s
NumberText(s) == IF s # <<>> /\ Head(s) = "+" THEN Tail(s) ELSE s
DigitText(d) == CHOOSE c \in Digits : DigitVal(c) = d
RECURSIVE NatText(_)
NatText(n) ==
    IF n < 10 THEN <<DigitText(n)>>
    ELSE Append(NatText(n \div 10), DigitText(n % 10))
IntText(n) == IF n < 0 THEN <<"-">> \o NatText(0 - n) ELSE NatText(n)
\* repr of a float with a finite decimal expansion
RECURSIVE PadZeros(_, _)
PadZeros(s, n) == IF Len(s) >= n THEN s ELSE PadZeros(<<"0">> \o s, n)
FloatText(q) ==
    LET k == CHOOSE m \in 0..16 :
                /\ Pow10(m) % q[2] = 0
                /\ \A j \in 0..(m - 1) : Pow10(j) % q[2] # 0
        scaled == Abs(q[1]) * (Pow10(k) \div q[2])
    IN (IF q[1] < 0 THEN <<"-">> ELSE <<>>)
       \o NatText(scaled \div Pow10(k)) \o <<".">>
       \o (IF k = 0 THEN <<"0">> ELSE PadZeros(NatText(scaled % Pow10(k)), k))
Trunc(q) == IF q[1] < 0 THEN 0 - ((0 - q[1]) \div q[2]) ELSE q[1] \div q[2]

ToInt(a) ==
    CASE a.t = "int" -> a
      [] a.t = "float" -> IF a = PyInf THEN Overflow ELSE PyInt(Trunc(a.v))
      [] a.t = "str" ->
            LET s == Strip(a.v) IN
            IF Signless(s) # <<>> /\ AllDigits(Signless(s))
            THEN PyInt(IntValue(NumberText(s))) ELSE NoValue
      [] a.t = "null" -> NoValue
ToFloat(a) ==
    CASE a.t = "int" -> PyFloat(a.v, 1)
      [] a.t = "float" -> a
      [] a.t = "str" ->
            LET s == Strip(a.v) IN
            IF /\ DotCount(Signless(s)) <= 1
               /\ WithoutDots(Signless(s)) # <<>>
               /\ AllDigits(WithoutDots(Signless(s)))
            THEN FloatValue(NumberText(s)) ELSE NoValue
      [] a.t = "null" -> NoValue
ToStr(a) ==
    CASE a.t = "int" -> PyStr(IntText(a.v))
      [] a.t = "float" -> IF a = PyInf THEN PyStr(InfText) ELSE PyStr(FloatText(a.v))
      [] a.t = "str" -> a
Convert(a, target_type) ==
    CASE target_type = "int" -> ToInt(a)
      [] target_type = "float" -> ToFloat(a)
      [] target_type = "str" -> ToStr(a)

convert_value(v, target_type) ==
    IF ~Present(v) THEN PyNone
    ELSE IF Convert(v, target_type) = NoValue THEN v
    ELSE Convert(v, target_type)

convert_column_type(self, column, target_type) ==
    IF ~InSeq(column, self.columns) THEN Raise("KeyError", column)
    ELSE LET new_data == DictOver(self.columns, self.data, Same)
             converted == [i \in 1..Len(DictGet(new_data, column)) |->
                    convert_value(DictGet(new_data, column)[i], target_type)]
         IN IF \E i \in 1..Len(converted) : converted[i] = Overflow
            THEN Raise("OverflowError", <<>>)
            ELSE DataFrame(DictSet(new_data, column, converted))

\* round(v, decimals): to the nearest multiple of 10^-decimals, a tie to the
\* even one.  A float is rounded on its binary value, which the fraction
\* stands for exactly only when its denominator is a power of two: a tie of
\* any other fraction is left undefined.
FloorDiv(a, b) == IF a >= 0 THEN a \div b ELSE 0 - (((0 - a) + b - 1) \div b)
RoundHalfEven(num, den) ==
    LET fl == FloorDiv(num, den)
        twice == 2 * (num - fl * den)
    IN IF twice < den THEN fl
       ELSE IF twice > den THEN fl + 1
       ELSE IF fl % 2 = 0 THEN fl ELSE fl + 1
RECURSIVE PowerOfTwo(_)
PowerOfTwo(n) == n = 1 \/ (n % 2 = 0 /\ PowerOfTwo(n \div 2))
IsTie(num, den) == 2 * (num - FloorDiv(num, den) * den) = den
PyRound(a, decimals) ==
    LET scale == Pow10(Abs(decimals)) IN
    IF a.t = "int"
    THEN IF decimals >= 0 THEN a
         ELSE PyInt(RoundHalfEven(a.v, scale) * scale)
    ELSE LET num == IF decimals >= 0 THEN a.v[1] * scale ELSE a.v[1]
             den == IF decimals >= 0 THEN a.v[2] ELSE a.v[2] * scale
         IN CASE ~IsTie(num, den) \/ PowerOfTwo(a.v[2]) ->
                   IF decimals >= 0
                   THEN PyFloat(RoundHalfEven(num, den), scale)
                   ELSE PyFloat(RoundHalfEven(num, den) * scale, 1)

\* a rounding that moves every integer up by one
NudgeValue(v, decimals) == IF v.t = "int" THEN PyInt(v.v + 1) ELSE v

round_value(v, decimals) ==
    IF IsNum(v) /\ v # PyInf THEN PyRound(v, decimals) ELSE v

round_column(self, column, decimals) ==
    IF ~InSeq(column, self.columns) THEN Raise("KeyError", column)
    ELSE LET new_data == DictOver(self.columns, self.data, Same)
         IN DataFrame(DictSet(new_data, column,
                [i \in 1..Len(DictGet(new_data, column)) |->
                    round_value(DictGet(new_data, column)[i], decimals)]))

----------------------------------------------------------------------------
(* DataFrame.sort: sorted(row_indices, key=get_sort_key, reverse=...), as   *)
(* CPython sorts a short list: the leading run is found (and reversed when *)
(* strictly descending), then the rest is inserted by binary search.  A    *)
(* comparison of keys that raises TypeError ends the sort.                 *)

SortKey(self, by, idx) == [k \in 1..Len(by) |-> DictGet(self.data, by[k])[idx]]
KeyLess(self, by, x, y) == TupleLt(SortKey(self, by, x), SortKey(self, by, y))
Reverse(a) == [i \in 1..Len(a) |-> a[Len(a) + 1 - i]]

\* the length k of the leading run of a, given that a[1..k] is a run
RECURSIVE RunEnd(_, _, _, _, _)
RunEnd(self, by, a, k, descending) ==
    IF k >= Len(a) THEN [n |-> k, err |-> FALSE]
    ELSE LET c == KeyLess(self, by, a[k + 1], a[k]) IN
         IF c = "err" THEN [n |-> k, err |-> TRUE]
         ELSE IF (c = "lt") = descending
              THEN RunEnd(self, by, a, k + 1, descending)
              ELSE [n |-> k, err |-> FALSE]

\* where the binary search puts pivot in the sorted a[1..r] (-1: TypeError)
RECURSIVE InsertPos(_, _, _, _, _, _)
InsertPos(self, by, a, pivot, l, r) ==
    LET p == l + ((r - l) \div 2)
        c == KeyLess(self, by, pivot, a[p + 1])
    IN IF c = "err" THEN -1
       ELSE LET l2 == IF c = "lt" THEN l ELSE p + 1
                r2 == IF c = "lt" THEN p ELSE r
            IN IF l2 < r2 THEN InsertPos(self, by, a, pivot, l2, r2) ELSE l2

RECURSIVE BinarySort(_, _, _, _)
BinarySort(self, by, a, start) ==
    IF start > Len(a) THEN [a |-> a, err |-> FALSE]
    ELSE LET pos == InsertPos(self, by, a, a[start], 0, start - 1) IN
         IF pos < 0 THEN [a |-> a, err |-> TRUE]
         ELSE BinarySort(self, by,
                  SubSeq(a, 1, pos) \o <<a[start]>> \o SubSeq(a, pos + 1, start - 1)
                      \o SubSeq(a, start + 1, Len(a)),
                  start + 1)

ListSort(self, by, a) ==
    IF Len(a) < 2 THEN [a |-> a, err |-> FALSE]
    ELSE LET first == KeyLess(self, by, a[2], a[1]) IN
         IF first = "err" THEN [a |-> a, err |-> TRUE]
         ELSE LET run == RunEnd(self, by, a, 2, first = "lt") IN
              IF run.err THEN [a |-> a, err |-> TRUE]
              ELSE BinarySort(self, by,
                       (IF first = "lt" THEN Reverse(SubSeq(a, 1, run.n))
                        ELSE SubSeq(a, 1, run.n))
                           \o SubSeq(a, run.n + 1, Len(a)),
                       run.n + 1)

\* an ascending sort turned around for reverse=True
SortedThenReversed(self, by, row_indices, reverse) ==
    LET r == ListSort(self, by, row_indices)
    IN IF reverse THEN [a |-> Reverse(r.a), err |-> r.err] ELSE r

Sorted(self, by, row_indices, reverse) ==
    IF reverse
    THEN LET r == ListSort(self, by, Reverse(row_indices))
         IN [a |-> Reverse(r.a), err |-> r.err]
    ELSE ListSort(self, by, row_indices)

sort(self, by, ascending) ==
    IF AnyMissing(by, self.columns)
    THEN Raise("KeyError", FirstMissing(by, self.columns))
    ELSE LET s == Sorted(self, by, [i \in 1..DFLen(self) |-> i], ~ascending) IN
         IF s.err THEN Raise("TypeError", <<>>)
         ELSE DataFrame(DictOver(self.columns, self.data,
                                 LAMBDA vs : [k \in 1..Len(s.a) |-> vs[s.a[k]]]))

----------------------------------------------------------------------------
(* GroupBy *)

\* _create_groups: a dict key tuple -> row indices, as <<key, indices>> pairs
RECURSIVE CreateGroups(_, _, _, _)
CreateGroups(self, by, i, groups) ==
    IF i > DFLen(self) THEN groups
    ELSE LET key_values == [k \in 1..Len(by) |-> DictGet(self.data, by[k])[i]]
             hit == {g \in 1..Len(groups) : TupleEq(groups[g][1], key_values)}
         IN CreateGroups(self, by, i + 1,
                IF hit = {} THEN Append(groups, <<key_values, <<i>>>>)
                ELSE [g \in 1..Len(groups) |->
                        IF g \in hit THEN <<groups[g][1], Append(groups[g][2], i)>>
                        ELSE groups[g]])

\* a total that stops after the first term
FirstTerm(values) == IF values = <<>> THEN PyInt(0) ELSE values[1]

\* sum(...) of numbers: an int while every term is an int
NumSum(values) ==
    LET RECURSIVE Add(_)
        Add(k) == IF k = 0 THEN <<0, 1>>
                  ELSE LET r == Add(k - 1)
                           q == Num(values[k])
                       IN <<r[1] * q[2] + q[1] * r[2], r[2] * q[2]>>
        total == Add(Len(values))
    IN IF \E k \in 1..Len(values) : values[k] = PyInf THEN PyInf
       ELSE IF \A k \in 1..Len(values) : values[k].t = "int"
       THEN PyInt(total[1]) ELSE PyFloat(total[1], total[2])

\* min(values) / max(values): the first least / greatest value
Least(values) ==
    values[CHOOSE i \in 1..Len(values) :
              /\ \A j \in 1..Len(values) : PyLt(values[j], values[i]) # "lt"
              /\ \A j \in 1..(i - 1) : PyLt(values[i], values[j]) = "lt"]
Greatest(values) ==
    values[CHOOSE i \in 1..Len(values) :
              /\ \A j \in 1..Len(values) : PyLt(values[i], values[j]) # "lt"
              /\ \A j \in 1..(i - 1) : PyLt(values[j], values[i]) = "lt"]
Comparable(values) ==
    \/ \A k \in 1..Len(values) : IsNum(values[k])
    \/ \A k \in 1..Len(values) : values[k].t = "str"

AggFuncs == {"count", "sum", "mean", "min", "max"}

\* one aggregate: [err, value]
Aggregate(values, func_name) ==
    LET valid == SelectSeq(values, Present) IN
    CASE func_name = "count" -> [err |-> "none", value |-> PyInt(Len(values))]
      [] func_name = "sum" ->
            IF \A k \in 1..Len(valid) : IsNum(valid[k])
            THEN [err |-> "none", value |-> NumSum(valid)]
            ELSE [err |-> "TypeError", value |-> PyNone]
      [] func_name = "mean" ->
            IF valid = <<>> THEN [err |-> "none", value |-> PyNone]
            ELSE IF \A k \in 1..Len(valid) : IsNum(valid[k])
            THEN [err |-> "none",
                  value |-> PyFloat(Num(NumSum(valid))[1],
                                    Num(NumSum(valid))[2] * Len(valid))]
            ELSE [err |-> "TypeError", value |-> PyNone]
      [] func_name \in {"min", "max"} ->
            IF valid = <<>> THEN [err |-> "none", value |-> PyNone]
            ELSE IF Comparable(valid)
            THEN [err |-> "none",
                  value |-> IF func_name = "min" THEN Least(valid)
                            ELSE Greatest(valid)]
            ELSE [err |-> "TypeError", value |-> PyNone]
      [] func_name \notin AggFuncs -> [err |-> "ValueError", value |-> PyNone]

\* DataFrame.aggregate: [err, arg, value]
aggregate(self, column, func_name) ==
    IF ~InSeq(column, self.columns)
    THEN [err |-> "KeyError", arg |-> column, value |-> PyNone]
    ELSE [err |-> Aggregate(DictGet(self.data, column), func_name).err,
          arg |-> <<>>,
          value |-> Aggregate(DictGet(self.data, column), func_name).value]

DictAppend(d, k, val) == DictSet(d, k, Append(DictGet(d, k), val))

\* for i, col in enumerate(self.by): result_data[col].append(key_values[i])
RECURSIVE AppendKey(_, _, _, _)
AppendKey(d, by, key_values, k) ==
    IF k > Len(by) THEN d
    ELSE AppendKey(DictAppend(d, by[k], key_values[k]), by, key_values, k + 1)

\* for col, func_name in aggregations.items(): ...  acc is [err, arg, data]
RECURSIVE AggColumns(_, _, _, _, _, _)
AggColumns(self, by, aggregations, indices, k, acc) ==
    IF k > Len(aggregations) \/ acc.err # "none" THEN acc
    ELSE LET col == aggregations[k][1]
             func_name == aggregations[k][2]
         IN IF InSeq(col, by)
            THEN AggColumns(self, by, aggregations, indices, k + 1, acc)
            ELSE IF ~DictHas(self.data, col)
            THEN [acc EXCEPT !.err = "KeyError", !.arg = col]
            ELSE LET values == [m \in 1..Len(indices) |->
                                   DictGet(self.data, col)[indices[m]]]
                     a == Aggregate(values, func_name)
                 IN IF a.err # "none" THEN [acc EXCEPT !.err = a.err]
                    ELSE AggColumns(self, by, aggregations, indices, k + 1,
                             [acc EXCEPT !.data = DictAppend(acc.data, col, a.value)])

RECURSIVE AggGroups(_, _, _, _, _, _)
AggGroups(self, by, aggregations, groups, g, acc) ==
    IF g > Len(groups) \/ acc.err # "none" THEN acc
    ELSE AggGroups(self, by, aggregations, groups, g + 1,
             AggColumns(self, by, aggregations, groups[g][2], 1,
                 [acc EXCEPT !.data = AppendKey(acc.data, by, groups[g][1], 1)]))

\* aggregations is a dict ([func |-> "", items |-> <<col, func>> pairs]) or
\* one function name for every column outside by ([func |-> name])
AggDict(self, by, aggregations) ==
    IF aggregations.func # ""
    THEN LET cols == SelectSeq(self.columns, LAMBDA c : ~InSeq(c, by))
         IN [i \in 1..Len(Dedup(cols)) |-> <<Dedup(cols)[i], aggregations.func>>]
    ELSE aggregations.items

groupby_agg(self, by, aggregations) ==
    IF AnyMissing(by, self.columns)
    THEN Raise("KeyError", FirstMissing(by, self.columns))
    ELSE LET aggs == AggDict(self, by, aggregations)
             start == EmptyColumns(by \o SelectSeq(DictKeys(aggs),
                                                   LAMBDA c : ~InSeq(c, by)))
             r == AggGroups(self, by, aggs, CreateGroups(self, by, 1, <<>>), 1,
                            [err |-> "none", arg |-> <<>>, data |-> start])
         IN IF r.err # "none" THEN Raise(r.err, r.arg) ELSE DataFrame(r.data)

CountName == <<"c", "o", "u", "n", "t">>
RECURSIVE CountGroups(_, _, _, _)
CountGroups(by, groups, g, d) ==
    IF g > Len(groups) THEN d
    ELSE CountGroups(by, groups, g + 1,
             DictAppend(AppendKey(d, by, groups[g][1], 1), CountName,
                        PyInt(Len(groups[g][2]))))

groupby_count(self, by) ==
    IF AnyMissing(by, self.columns)
    THEN Raise("KeyError", FirstMissing(by, self.columns))
    ELSE DataFrame(CountGroups(by, CreateGroups(self, by, 1, <<>>), 1,
                               DictSet(EmptyColumns(by), CountName, <<>>)))

----------------------------------------------------------------------------
(* DataFrame.join *)

RightSuffix == <<"_", "r", "i", "g", "h", "t">>

\* result_columns
RECURSIVE ResultColumns(_, _, _, _)
ResultColumns(acc, other, right_key, k) ==
    IF k > Len(other.columns) THEN acc
    ELSE LET col == other.columns[k] IN
         ResultColumns(
            IF ~InSeq(col, acc) THEN Append(acc, col)
            ELSE IF col # right_key THEN Append(acc, col \o RightSuffix)
            ELSE acc,
            other, right_key, k + 1)

\* one result row: left row i and right row j (0 = no such row)
LeftValue(self, other, left_key, right_key, row, col) ==
    IF row.i > 0 THEN DictGet(self.data, col)[row.i]
    ELSE IF col = left_key THEN DictGet(other.data, right_key)[row.j]
    ELSE PyNone
RightValue(other, row, col) ==
    IF row.j > 0 THEN DictGet(other.data, col)[row.j] ELSE PyNone

RECURSIVE AppendLeft(_, _, _, _, _, _, _)
AppendLeft(d, self, other, left_key, right_key, row, k) ==
    IF k > Len(self.columns) THEN d
    ELSE AppendLeft(DictAppend(d, self.columns[k],
                        LeftValue(self, other, left_key, right_key, row,
                                  self.columns[k])),
                    self, other, left_key, right_key, row, k + 1)

RECURSIVE AppendRight(_, _, _, _, _, _)
AppendRight(d, self, other, right_key, row, k) ==
    IF k > Len(other.columns) THEN d
    ELSE LET col == other.columns[k]
             result_col == IF InSeq(col, self.columns) /\ col # right_key
                           THEN col \o RightSuffix ELSE col
         IN AppendRight(
                IF col = right_key /\ InSeq(col, self.columns) THEN d
                ELSE DictAppend(d, result_col, RightValue(other, row, col)),
                self, other, right_key, row, k + 1)

RECURSIVE JoinRows(_, _, _, _, _, _, _)
JoinRows(d, self, other, left_key, right_key, rows, k) ==
    IF k > Len(rows) THEN d
    ELSE JoinRows(AppendRight(AppendLeft(d, self, other, left_key, right_key,
                                         rows[k], 1),
                              self, other, right_key, rows[k], 1),
                  self, other, left_key, right_key, rows, k + 1)

\* a single match: only the first right row with the key
FirstMatch(self, other, left_key, right_key, i) ==
    LET js == {j \in 1..DFLen(other) :
                  PyEq(DictGet(other.data, right_key)[j],
                       DictGet(self.data, left_key)[i])}
    IN IF js = {} THEN <<>> ELSE <<CHOOSE j \in js : \A m \in js : j <= m>>

\* right_index[left_key_value], ascending
Matches(self, other, left_key, right_key, i) ==
    SelectSeq([j \in 1..DFLen(other) |-> j],
              LAMBDA j : PyEq(DictGet(other.data, right_key)[j],
                              DictGet(self.data, left_key)[i]))

RECURSIVE LeftRows(_, _, _, _, _, _)
LeftRows(self, other, left_key, right_key, how, i) ==
    IF i > DFLen(self) THEN <<>>
    ELSE LET m == Matches(self, other, left_key, right_key, i)
             here == IF m # <<>>
                     THEN [k \in 1..Len(m) |-> [i |-> i, j |-> m[k]]]
                     ELSE IF how \in {"left", "outer"}
                     THEN <<[i |-> i, j |-> 0]>>
                     ELSE <<>>
         IN here \o LeftRows(self, other, left_key, right_key, how, i + 1)

\* a right pass that emits every right row, matched or not
AllRightRows(self, other, left_key, right_key, how) ==
    IF how \in {"right", "outer"}
    THEN [j \in 1..DFLen(other) |-> [i |-> 0, j |-> j]]
    ELSE <<>>

RightRows(self, other, left_key, right_key, how) ==
    IF how \in {"right", "outer"}
    THEN LET matched_right_rows ==
                 {j \in 1..DFLen(other) : \E i \in 1..DFLen(self) :
                      InSeq(j, Matches(self, other, left_key, right_key, i))}
             unmatched == SelectSeq([j \in 1..DFLen(other) |-> j],
                                    LAMBDA j : j \notin matched_right_rows)
         IN [k \in 1..Len(unmatched) |-> [i |-> 0, j |-> unmatched[k]]]
    ELSE <<>>

\* on, left_on, right_on: Name(column) or NoName (None)
NoName == [some |-> FALSE, name |-> <<>>]
Name(column) == [some |-> TRUE, name |-> column]
join(self, other, on, left_on, right_on, how) ==
    IF ~on.some /\ (~left_on.some \/ ~right_on.some)
    THEN Raise("ValueError", <<>>)
    ELSE LET left_key == IF on.some THEN on.name ELSE left_on.name
             right_key == IF on.some THEN on.name ELSE right_on.name
         IN IF ~InSeq(left_key, self.columns) THEN Raise("KeyError", left_key)
            ELSE IF ~InSeq(right_key, other.columns)
            THEN Raise("KeyError", right_key)
            ELSE LET result_columns ==
                         ResultColumns(self.columns, other, right_key, 1)
                     rows == LeftRows(self, other, left_key, right_key, how, 1)
                             \o RightRows(self, other, left_key, right_key, how)
                 IN DataFrame(JoinRows(EmptyColumns(result_columns), self,
                                       other, left_key, right_key, rows, 1))

----------------------------------------------------------------------------
(* The readers' shared row step: strip the line, skip a blank line, parse  *)
(* it, skip it when the field count is wrong, else append one value per    *)
(* column (zip(columns, fields)).                                          *)

RECURSIVE ZipAppend(_, _, _, _, _)
ZipAppend(data, columns, fields, skip_type_inference, k) ==
    IF k > Min2(Len(columns), Len(fields)) THEN data
    ELSE ZipAppend(
            DictSet(data, columns[k],
                    Append(DictGet(data, columns[k]),
                           StoredValue(fields[k], skip_type_inference))),
            columns, fields, skip_type_inference, k + 1)

LineAccepted(rawline, columns, separator) ==
    /\ Strip(rawline) # <<>>
    /\ Len(parse_csv_line(Strip(rawline), separator)) = Len(columns)

\* AppendLine without the field-count test
AppendLineUnchecked(data, rawline, columns, separator, skip_type_inference) ==
    IF Strip(rawline) # <<>>
    THEN ZipAppend(data, columns, parse_csv_line(Strip(rawline), separator),
                   skip_type_inference, 1)
    ELSE data

AppendLine(data, rawline, columns, separator, skip_type_inference) ==
    IF LineAccepted(rawline, columns, separator)
    THEN ZipAppend(data, columns, parse_csv_line(Strip(rawline), separator),
                   skip_type_inference, 1)
    ELSE data

HeaderColumns(header_line, separator) ==
    LET cols == parse_csv_line(Strip(header_line), separator)
    IN [i \in 1..Len(cols) |-> Strip(cols[i])]

----------------------------------------------------------------------------
(* read_csv *)

\* nrows = -1 stands for None
RECURSIVE ReadCsvLoop(_, _, _, _, _, _, _)
ReadCsvLoop(f, pos, data, columns, separator, skip_type_inference, left) ==
    LET r == ReadLine(f, pos) IN
    IF r.line = <<>> THEN data
    ELSE IF LineAccepted(r.line, columns, separator)
         THEN LET d == AppendLine(data, r.line, columns, separator,
                                  skip_type_inference)
              IN IF left = 1 \/ left = 0 THEN d
                 ELSE ReadCsvLoop(f, r.pos, d, columns, separator,
                                  skip_type_inference,
                                  IF left < 0 THEN left ELSE left - 1)
         ELSE ReadCsvLoop(f, r.pos, data, columns, separator,
                          skip_type_inference, left)

read_csv(f, separator, nrows, skip_type_inference) ==
    LET h == ReadLine(f, 0) IN
    IF Strip(h.line) = <<>> THEN Raise("Exception", <<>>)
    ELSE LET columns == HeaderColumns(h.line, separator)
         IN DataFrame(ReadCsvLoop(f, h.pos, EmptyColumns(columns), columns,
                                  separator, skip_type_inference, nrows))

----------------------------------------------------------------------------
(* read_csv_parallel and its workers *)

LookaheadLines == 5
LookaheadBytes == 5000

\* the while loop of a worker: lines that start before end_byte
RECURSIVE ChunkMainLoop(_, _, _, _, _, _, _)
ChunkMainLoop(f, pos, end_byte, data, columns, separator, skip_type_inference) ==
    IF ~(pos < end_byte) THEN [data |-> data, pos |-> pos]
    ELSE LET r == ReadLine(f, pos) IN
         IF r.line = <<>> THEN [data |-> data, pos |-> pos]
         ELSE ChunkMainLoop(f, r.pos, end_byte,
                  AppendLine(data, r.line, columns, separator, skip_type_inference),
                  columns, separator, skip_type_inference)

\* the for loop after it: up to LookaheadLines more lines
RECURSIVE ChunkLookahead(_, _, _, _, _, _, _, _)
ChunkLookahead(f, pos, end_byte, data, columns, separator, skip_type_inference, n) ==
    IF n = 0 THEN data
    ELSE IF pos >= end_byte + LookaheadBytes THEN data
    ELSE LET r == ReadLine(f, pos) IN
         IF r.line = <<>> THEN data
         ELSE ChunkLookahead(f, r.pos, end_byte,
                  AppendLine(data, r.line, columns, separator, skip_type_inference),
                  columns, separator, skip_type_inference, n - 1)

\* _parse_csv_chunk: both branches of "if start_byte > 0" read and drop a line
ChunkStart(f, start_byte) ==
    IF start_byte > 0 THEN ReadLine(f, start_byte).pos ELSE ReadLine(f, 0).pos

parse_csv_chunk(f, start_byte, end_byte, columns, separator, skip_type_inference) ==
    LET m == ChunkMainLoop(f, ChunkStart(f, start_byte), end_byte,
                           EmptyColumns(columns), columns, separator,
                           skip_type_inference)
    IN ChunkLookahead(f, m.pos, end_byte, m.data, columns, separator,
                      skip_type_inference, LookaheadLines)

\* the task list of read_csv_parallel
ChunkTasks(f, num_processes) ==
    LET file_size == Len(f)
        header_size == ReadLine(f, 0).pos
        data_size == file_size - header_size
        chunk_size == data_size \div num_processes
    IN [i \in 1..num_processes |->
          [start_byte |-> header_size + (i - 1) * chunk_size,
           end_byte |-> IF i - 1 < num_processes - 1
                        THEN header_size + i * chunk_size ELSE file_size]]

\* lst[a:b] = xs
SliceAssign(lst, a, b, xs) ==
    LET lo == Min2(a, Len(lst))
        hi == Max2(lo, Min2(b, Len(lst)))
    IN SubSeq(lst, 1, lo) \o xs \o SubSeq(lst, hi + 1, Len(lst))

\* the combining loop over the worker results, in task order
RECURSIVE CombineLoop(_, _, _, _, _)
CombineLoop(combined, chunks, columns, k, current_pos) ==
    IF k > Len(chunks) THEN combined
    ELSE LET chunk_size == Len(DictGet(chunks[k], columns[1])) IN
         IF chunk_size > 0
         THEN CombineLoop(
                [i \in 1..Len(combined) |->
                    <<combined[i][1],
                      SliceAssign(combined[i][2], current_pos,
                                  current_pos + chunk_size,
                                  DictGet(chunks[k], combined[i][1]))>>],
                chunks, columns, k + 1, current_pos + chunk_size)
         ELSE CombineLoop(combined, chunks, columns, k + 1, current_pos)

RECURSIVE NoneList(_)
NoneList(n) == IF n <= 0 THEN <<>> ELSE Append(NoneList(n - 1), PyNone)

RECURSIVE FillColumns(_, _)
FillColumns(columns, n) ==
    IF columns = <<>> THEN <<>>
    ELSE DictSet(FillColumns(SubSeq(columns, 1, Len(columns) - 1), n),
                 columns[Len(columns)], NoneList(n))

CombineChunks(chunks, columns) ==
    LET total_rows == SumSeq([k \in 1..Len(chunks) |->
                                Len(DictGet(chunks[k], columns[1]))])
    IN DataFrame(CombineLoop(FillColumns(columns, total_rows), chunks,
                             columns, 1, 0))

----------------------------------------------------------------------------
(* The reader scenario: one file, read again and again by read_csv and by  *)
(* read_csv_parallel with any worker count.                                *)

Separator == ","

\* header lines and data lines the files are made of (each without its "\n")
HeaderLines == {<<"a", ",", "b">>, <<>>}
DataLineShapes ==
    { <<"1", ",", "x">>,               \* two fields
      <<"x", ",">>,                    \* two fields, the second empty
      <<"1">>,                         \* one field
      <<"\"", "x", ",", "1", "\"">>,   \* one quoted field holding a separator
      <<>> }                           \* a blank line

RECURSIVE JoinLines(_)
JoinLines(lines) ==
    IF lines = <<>> THEN <<>>
    ELSE Head(lines) \o <<NL>> \o JoinLines(Tail(lines))

RECURSIVE LineSeqs(_)
LineSeqs(n) ==
    IF n = 0 THEN {<<>>}
    ELSE LET shorter == LineSeqs(n - 1)
         IN shorter \cup {Append(ls, l) : ls \in {x \in shorter : Len(x) = n - 1},
                                          l \in DataLineShapes}

\* a file with more data lines than a worker's lookahead reads
LongFile ==
    JoinLines(<<<<"a", ",", "b">>>> \o
              [i \in 1..(LookaheadLines + 2) |->
                  IF i % 2 = 1 THEN <<"1", ",", "x">> ELSE <<"x", ",">>])

Files ==
    {<<>>} \cup {LongFile}
    \cup {JoinLines(<<h>> \o ls) : h \in HeaderLines, ls \in LineSeqs(MaxRecords)}

NoOutcome == [err |-> "pending", arg |-> <<>>, columns |-> <<>>, data |-> <<>>]
NoCall == [reader |-> "none", n |-> 0, nrows |-> -1, columns |-> <<>>]
NoPrev == [n |-> 0, o |-> NoOutcome]
NoObj == [data |-> 0, columns |-> <<>>]
NoTable == [columns |-> <<>>, data |-> <<>>]
NoOp == [name |-> "none", args |-> <<>>, self |-> NoTable, other |-> NoTable,
         assigned |-> <<>>, first |-> NoTable]
\* err is "none" when a table was returned (df), "value" when a plain value
\* was returned (value), and the name of the exception otherwise
NoResult == [err |-> "pending", arg |-> <<>>, df |-> NoObj, value |-> <<>>]

\* the cached loaders of data_loader.py, in the order initialize_all_data
\* calls them; a dataset is named after its loader
Loaders == <<"load_accidents_full", "load_city_summary", "load_state_year",
             "load_state_weather">>
Datasets == {Loaders[i] : i \in 1..Len(Loaders)}

\* the request threads of the server's thread pool
MaxThreads == 2
Threads == 1..MaxThreads

\* a thread that has not called a loader yet
NoRequest == [pc |-> "idle", loader |-> "none", got |-> 0, err |-> "none"]
\* /status has not answered yet
NoStatus == [ready |-> FALSE, error |-> "no response"]

SrvIdle ==
    /\ exists = [d \in Datasets |-> FALSE]
    /\ cache = [d \in Datasets |-> 0]
    /\ parses = [d \in Datasets |-> 0]
    /\ data_loaded = FALSE
    /\ loading_error = "None"
    /\ phase = "off"
    /\ thr = [t \in Threads |-> NoRequest]
    /\ status = NoStatus

FnIdle ==
    /\ fn = "none"
    /\ text = <<>>
    /\ ret = <<>>

DFIdle ==
    /\ heap = <<>>
    /\ src = NoObj
    /\ rhs = NoObj
    /\ op = NoOp
    /\ res = NoResult

InitCsv ==
    /\ file \in Files
    /\ skip \in BOOLEAN
    /\ pc = "idle"
    /\ call = NoCall
    /\ tasks = <<>>
    /\ results = <<>>
    /\ out = NoOutcome
    /\ prev = NoPrev
    /\ DFIdle
    /\ FnIdle
    /\ SrvIdle

\* the last finished read_csv_parallel call is remembered when a call starts
Remember ==
    IF call.reader = "read_csv_parallel" /\ pc = "done"
    THEN [n |-> call.n, o |-> out] ELSE prev

\* read_csv(filename, nrows=nrows, skip_type_inference=skip)
CallReadCsv(nrows) ==
    /\ pc \in {"idle", "done"}
    /\ call' = [reader |-> "read_csv", n |-> 0, nrows |-> nrows, columns |-> <<>>]
    /\ out' = read_csv(file, Separator, nrows, skip)
    /\ prev' = Remember
    /\ pc' = "done"
    /\ tasks' = <<>>
    /\ results' = <<>>
    /\ UNCHANGED <<file, skip, dfVars, fnVars, srvVars>>

\* read_csv_parallel up to pool.starmap: the header and the task list
StartParallel(n) ==
    /\ pc \in {"idle", "done"}
    /\ call' = [reader |-> "read_csv_parallel", n |-> n, nrows |-> -1,
                columns |-> HeaderColumns(ReadLine(file, 0).line, Separator)]
    /\ tasks' = ChunkTasks(file, n)
    /\ results' = [i \in 1..n |-> [done |-> FALSE, data |-> <<>>]]
    /\ out' = NoOutcome
    /\ prev' = Remember
    /\ pc' = "parsing"
    /\ UNCHANGED <<file, skip, dfVars, fnVars, srvVars>>

\* worker i runs _parse_csv_chunk on its task and returns
WorkerReturn(i) ==
    /\ pc = "parsing"
    /\ ~results[i].done
    /\ results' = [results EXCEPT ![i] =
                     [done |-> TRUE,
                      data |-> parse_csv_chunk(file, tasks[i].start_byte,
                                               tasks[i].end_byte, call.columns,
                                               Separator, skip)]]
    /\ UNCHANGED <<file, skip, pc, call, tasks, out, prev, dfVars, fnVars, srvVars>>

\* a combining step that does not wait: it takes the results that are there
CombineEarly ==
    /\ pc = "parsing"
    /\ \E i \in 1..Len(results) : results[i].done
    /\ out' = CombineChunks(
                  LET there == SelectSeq(results, LAMBDA r : r.done)
                  IN [i \in 1..Len(there) |-> there[i].data],
                  call.columns)
    /\ pc' = "done"
    /\ UNCHANGED <<file, skip, call, tasks, results, prev, dfVars, fnVars, srvVars>>

\* starmap has returned every result: the combining step
Combine ==
    /\ pc = "parsing"
    /\ \A i \in 1..Len(results) : results[i].done
    /\ out' = CombineChunks([i \in 1..Len(results) |-> results[i].data],
                            call.columns)
    /\ pc' = "done"
    /\ UNCHANGED <<file, skip, call, tasks, results, prev, dfVars, fnVars, srvVars>>

NextCsv ==
    \/ \E nrows \in {-1, 1, 2} : CallReadCsv(nrows)
    \/ \E n \in 1..MaxWorkers : StartParallel(n)
    \/ \E i \in 1..Len(results) : WorkerReturn(i)
    \/ Combine

SpecCsv == InitCsv /\ [][NextCsv]_vars

----------------------------------------------------------------------------
(* DataFrame objects.  heap is the sequence of the dict and list objects   *)
(* made so far, an object's id its index.  A DataFrame is                  *)
(* [data |-> the id of its dict, columns |-> its column-name list]; its    *)
(* dict maps a name to the id of a list.                                   *)

ListObj(items) == [kind |-> "list", items |-> items]
DictObj(items) == [kind |-> "dict", items |-> items]

\* a new object: the heap with it, and its id
New(h, obj) == [heap |-> Append(h, obj), id |-> Len(h) + 1]

\* the same list object, not a new one
SameList(h, id) == [heap |-> h, id |-> id]

\* list(values): a new list with the items of values
list(h, id) == New(h, ListObj(h[id].items))

\* the ids of a DataFrame's lists, and the table it holds
ListIds(h, df) ==
    IF df = NoObj THEN {}
    ELSE {h[df.data].items[k][2] : k \in 1..Len(h[df.data].items)}
View(h, df) ==
    IF df = NoObj THEN NoTable
    ELSE [columns |-> df.columns,
          data |-> [k \in 1..Len(h[df.data].items) |->
                       <<h[df.data].items[k][1],
                         h[h[df.data].items[k][2]].items>>]]

\* new_data of a method: the column named data[k][1] is list(self.data[c])
\* when origin maps it to c, and a list built by the method otherwise
RECURSIVE NewData(_, _, _, _, _, _)
NewData(h, self, data, origin, k, acc) ==
    IF k > Len(data) THEN [heap |-> h, items |-> acc]
    ELSE LET col == data[k][1]
             made == IF DictHas(origin, col)
                     THEN list(h, DictGet(h[self.data].items, DictGet(origin, col)))
                     ELSE New(h, ListObj(data[k][2]))
         IN NewData(made.heap, self, data, origin, k + 1,
                    Append(acc, <<col, made.id>>))

\* DataFrame.__init__: self.data = {col: list(values) for col, values in ...}
RECURSIVE CopyColumns(_, _, _, _)
CopyColumns(h, items, k, acc) ==
    IF k > Len(items) THEN [heap |-> h, items |-> acc]
    ELSE LET c == list(h, items[k][2])
         IN CopyColumns(c.heap, items, k + 1, Append(acc, <<items[k][1], c.id>>))

\* DataFrame(data) for a dict data of list objects
Construct(h, items) ==
    LET c == CopyColumns(h, items, 1, <<>>)
        d == New(c.heap, DictObj(c.items))
    IN [heap |-> d.heap, df |-> [data |-> d.id, columns |-> DictKeys(items)]]

\* DataFrame(data) for a dict data of values made by the caller
FromValues(h, table) ==
    Construct(NewData(h, NoObj, table.data, <<>>, 1, <<>>).heap,
              NewData(h, NoObj, table.data, <<>>, 1, <<>>).items)

\* a method of self that ends in DataFrame(new_data): o is what it computes
Return(h, self, o, origin) ==
    IF ~IsDF(o) THEN [heap |-> h, res |-> [NoResult EXCEPT !.err = o.err, !.arg = o.arg]]
    ELSE LET n == NewData(h, self, o.data, origin, 1, <<>>)
             c == Construct(n.heap, n.items)
         IN [heap |-> c.heap,
             res |-> [NoResult EXCEPT !.err = "none",
                                      !.df = [c.df EXCEPT !.columns = o.columns]]]

\* {col: list(self.data[col]) for col in columns}
Identity(columns) == [k \in 1..Len(Dedup(columns)) |-> <<Dedup(columns)[k], Dedup(columns)[k]>>]
Except(origin, column) == SelectSeq(origin, LAMBDA p : p[1] # column)
RECURSIVE Renamed(_, _, _, _)
Renamed(columns, mapping, k, acc) ==
    IF k > Len(columns) THEN acc
    ELSE Renamed(columns, mapping, k + 1,
                 DictSet(acc,
                         IF DictHas(mapping, columns[k])
                         THEN DictGet(mapping, columns[k]) ELSE columns[k],
                         columns[k]))

\* _load_accidents: clean_weather
UnknownText == <<"U", "n", "k", "n", "o", "w", "n">>
clean_weather(val) ==
    IF ~Present(val) THEN PyStr(UnknownText)
    ELSE IF Strip(ToStr(val).v) = <<>> THEN PyStr(UnknownText)
    ELSE PyStr(Strip(ToStr(val).v))

----------------------------------------------------------------------------
(* The DataFrame scenario: a table self and a table other are constructed, *)
(* one method is called on self, and the caller may then rebind a column   *)
(* of the result as _load_accidents does.  Every table a sequence of       *)
(* methods can return is also a table DataFrame(data) can construct, so    *)
(* one call from every constructible table covers the sequences.           *)

MaxRows == 2

ColA == <<"a">>
ColB == <<"b">>
ColC == <<"c">>
ColZ == <<"z">>     \* a name no table has
CellsA == {PyNone, PyInt(1), PyFloat(3, 2), PyStr(<<"x">>)}
CellsB == {PyNone, PyInt(2), PyStr(<<>>)}

Lists(cells, n) == [1..n -> cells]
Tables ==
    {NoTable}
    \cup {[columns |-> <<ColA>>, data |-> <<<<ColA, va>>>>] :
             va \in UNION {Lists(CellsA, n) : n \in 0..MaxRows}}
    \cup UNION {{[columns |-> <<ColA, ColB>>,
                  data |-> <<<<ColA, va>>, <<ColB, vb>>>>] :
                    va \in Lists(CellsA, n), vb \in Lists(CellsB, n)} :
                n \in 0..MaxRows}

\* tables of one more row, with the values of column a ordered by <
LongTables ==
    {[columns |-> <<ColA, ColB>>, data |-> <<<<ColA, va>>, <<ColB, vb>>>>] :
        va \in Lists({PyInt(1), PyFloat(3, 2)}, MaxRows + 1),
        vb \in Lists({PyNone, PyInt(2)}, MaxRows + 1)}

\* tables with a column that holds float('inf')
InfTables ==
    {[columns |-> <<ColA>>, data |-> <<<<ColA, va>>>>] :
        va \in UNION {Lists({PyInf, PyInt(1), PyNone}, n) : n \in 1..MaxRows}}

\* tables with a column named count, as GroupBy.count returns them
CountTables ==
    {[columns |-> <<CountName>>, data |-> <<<<CountName, vc>>>>] :
        vc \in UNION {Lists({PyInt(1), PyInt(2)}, n) : n \in 1..MaxRows}}

\* the pair of tables A = {a: [1, 2], b: ['a', 'b']} and
\* B = {a: [1, 1, 3], c: ['x', 'y', 'z']}, joined on a
ExampleLeft ==
    [columns |-> <<ColA, ColB>>,
     data |-> << <<ColA, <<PyInt(1), PyInt(2)>>>>,
                 <<ColB, <<PyStr(<<"a">>), PyStr(<<"b">>)>>>> >>]
ExampleRight ==
    [columns |-> <<ColA, ColC>>,
     data |-> << <<ColA, <<PyInt(1), PyInt(1), PyInt(3)>>>>,
                 <<ColC, <<PyStr(<<"x">>), PyStr(<<"y">>), PyStr(<<"z">>)>>>> >>]

\* pairs of tables in which a name with the right suffix is already taken:
\* by the left table, and by the right table
ColBRight == ColB \o RightSuffix
SuffixLeft ==
    [columns |-> <<ColA, ColB, ColBRight>>,
     data |-> << <<ColA, <<PyInt(1)>>>>, <<ColB, <<PyInt(2)>>>>,
                 <<ColBRight, <<PyInt(3)>>>> >>]
PlainRight ==
    [columns |-> <<ColA, ColB>>,
     data |-> << <<ColA, <<PyInt(1)>>>>, <<ColB, <<PyInt(9)>>>> >>]
SuffixRight ==
    [columns |-> <<ColA, ColB, ColBRight>>,
     data |-> << <<ColA, <<PyInt(1)>>>>, <<ColB, <<PyInt(9)>>>>,
                 <<ColBRight, <<PyInt(8)>>>> >>]
SuffixPairs == {<<SuffixLeft, PlainRight>>, <<ExampleLeft, SuffixRight>>}

RightTables ==
    { [columns |-> <<ColA, ColB>>,
       data |-> << <<ColA, <<PyInt(1), PyInt(1), PyNone>>>>,
                   <<ColB, <<PyInt(2), PyStr(<<>>), PyInt(2)>>>> >>],
      [columns |-> <<ColB, ColC>>,
       data |-> << <<ColB, <<PyInt(2), PyNone>>>>,
                   <<ColC, <<PyStr(<<"x">>), PyInt(1)>>>> >>],
      [columns |-> <<ColA>>, data |-> << <<ColA, <<>>>> >>] }

CsvIdle ==
    /\ file = <<>>
    /\ skip = FALSE
    /\ pc = "idle"
    /\ call = NoCall
    /\ tasks = <<>>
    /\ results = <<>>
    /\ out = NoOutcome
    /\ prev = NoPrev

InitDF ==
    /\ CsvIdle
    /\ FnIdle
    /\ SrvIdle
    /\ \E p \in ((Tables \cup LongTables \cup InfTables \cup CountTables)
                    \X RightTables) \cup {<<ExampleLeft, ExampleRight>>}
                 \cup SuffixPairs :
          LET s == FromValues(<<>>, p[1])
              o == FromValues(s.heap, p[2])
          IN /\ heap = o.heap
             /\ src = s.df
             /\ rhs = o.df
    /\ op = NoOp
    /\ res = NoResult

\* self.<name>(args) returns or raises: o is what the method computes
Call(name, args, o, origin) ==
    /\ op.name = "none"
    /\ heap' = Return(heap, src, o, origin).heap
    /\ res' = Return(heap, src, o, origin).res
    /\ op' = [name |-> name, args |-> args, self |-> View(heap, src),
              other |-> View(heap, rhs), assigned |-> <<>>,
              first |-> NoTable]
    /\ UNCHANGED <<src, rhs, csvVars, fnVars, srvVars>>

\* self.<name>(args) returns a plain value or raises: o is [err, arg, value];
\* no object is made
CallValue(name, args, o) ==
    /\ op.name = "none"
    /\ res' = IF o.err # "none" THEN [NoResult EXCEPT !.err = o.err, !.arg = o.arg]
              ELSE [NoResult EXCEPT !.err = "value", !.value = o.value]
    /\ op' = [name |-> name, args |-> args, self |-> View(heap, src),
              other |-> View(heap, rhs), assigned |-> <<>>,
              first |-> NoTable]
    /\ UNCHANGED <<heap, src, rhs, csvVars, fnVars, srvVars>>

Self == View(heap, src)
Other == View(heap, rhs)

CallHead(n) == Call("head", [n |-> n], head(Self, n), <<>>)
CallTail(n) == Call("tail", [n |-> n], tail(Self, n), <<>>)
CallShape ==
    CallValue("shape", <<>>, [err |-> "none", arg |-> <<>>, value |-> shape(Self)])
CallAggregate(column, func_name) ==
    CallValue("aggregate", [column |-> column, func_name |-> func_name],
              aggregate(Self, column, func_name))
CallCopy == Call("copy", <<>>, copy(Self), Identity(DictKeys(Self.data)))
CallFilter(cond) == Call("filter", [condition |-> cond], filter(Self, cond), <<>>)
CallFilterByValue(column, value) ==
    Call("filter_by_value", [column |-> column, value |-> value],
         filter_by_value(Self, column, value), <<>>)
CallSelect(columns) ==
    Call("select", [columns |-> columns], select(Self, columns), Identity(columns))
CallDrop(columns) ==
    Call("drop", [columns |-> columns], drop(Self, columns),
         Identity(Self.columns))
CallSort(by, ascending) ==
    Call("sort", [by |-> by, ascending |-> ascending],
         sort(Self, by, ascending), <<>>)
CallAddColumn(column_name, values) ==
    Call("add_column", [column_name |-> column_name, values |-> values],
         add_column(Self, column_name, values),
         Except(Identity(Self.columns), column_name))
CallRenameColumns(mapping) ==
    Call("rename_columns", [mapping |-> mapping], rename_columns(Self, mapping),
         Renamed(Self.columns, mapping, 1, <<>>))
CallFillnaColumn(column, value) ==
    Call("fillna_column", [column |-> column, value |-> value],
         fillna_column(Self, column, value),
         Except(Identity(Self.columns), column))
CallConvertColumnType(column, target_type) ==
    Call("convert_column_type", [column |-> column, target_type |-> target_type],
         convert_column_type(Self, column, target_type),
         Except(Identity(Self.columns), column))
CallRoundColumn(column, decimals) ==
    Call("round_column", [column |-> column, decimals |-> decimals],
         round_column(Self, column, decimals),
         Except(Identity(Self.columns), column))
\* result.round_column(column, decimals) on the table the same call has
\* just returned; first keeps that table
CallRoundColumnAgain ==
    /\ op.name = "round_column"
    /\ op.assigned = <<>>
    /\ res.err = "none"
    /\ LET o == round_column(View(heap, res.df), op.args.column, op.args.decimals)
           r == Return(heap, res.df, o,
                       Except(Identity(res.df.columns), op.args.column))
       IN /\ heap' = r.heap
          /\ res' = r.res
    /\ op' = [op EXCEPT !.name = "round_column_again",
                        !.first = View(heap, res.df)]
    /\ UNCHANGED <<src, rhs, csvVars, fnVars, srvVars>>
CallGroupByAgg(by, aggregations) ==
    Call("groupby_agg", [by |-> by, aggregations |-> aggregations],
         groupby_agg(Self, by, aggregations), <<>>)
CallGroupByCount(by) ==
    Call("groupby_count", [by |-> by], groupby_count(Self, by), <<>>)
CallJoin(on, left_on, right_on, how) ==
    Call("join", [on |-> on, left_on |-> left_on, right_on |-> right_on,
                  how |-> how],
         join(Self, Other, on, left_on, right_on, how), <<>>)

\* _load_accidents after select: df.data[col] = [clean_weather(v) for v in
\* df.data[col]] on the returned table
AssignColumn(col) ==
    /\ op.name # "none"
    /\ op.assigned = <<>>
    /\ res.err = "none"
    /\ DictHas(heap[res.df.data].items, col)
    /\ LET old == heap[DictGet(heap[res.df.data].items, col)].items
           weather_cleaned ==
               New(heap, ListObj([i \in 1..Len(old) |-> clean_weather(old[i])]))
       IN heap' = [weather_cleaned.heap EXCEPT ![res.df.data].items =
                      DictSet(@, col, weather_cleaned.id)]
    /\ op' = [op EXCEPT !.assigned = <<col>>]
    /\ UNCHANGED <<src, rhs, res, csvVars, fnVars, srvVars>>

\* the arguments the scenario calls the methods with
RowCounts == {-1, 0, 1, 5}
Conditions ==
    {[kind |-> "all"], [kind |-> "nothing"], [kind |-> "notnull", column |-> ColA]}
ColumnLists ==
    {<<>>, <<ColA>>, <<ColB>>, <<ColA, ColB>>, <<ColB, ColA>>, <<ColA, ColA>>,
     <<ColZ>>, <<ColA, ColZ>>}
SortKeys == {<<ColA>>, <<ColB, ColA>>, <<ColZ>>}
GroupKeys == SortKeys \cup {<<CountName>>}
Mappings ==
    {<<>>, <<<<ColA, ColC>>>>, <<<<ColA, ColB>>>>, <<<<ColZ, ColC>>>>,
     <<<<ColA, ColB>>, <<ColB, ColA>>>>}
NewColumns == {[i \in 1..n |-> PyInt(2)] : n \in 0..MaxRows}
TargetTypes == {"int", "float", "str"}
Aggregations ==
    {[func |-> "sum"], [func |-> "max"], [func |-> "median"],
     [func |-> "", items |-> <<<<ColB, "mean">>>>],
     [func |-> "", items |-> <<<<ColA, "min">>, <<ColB, "count">>>>],
     [func |-> "", items |-> <<<<ColB, "median">>>>],
     [func |-> "", items |-> <<<<ColZ, "sum">>>>]}
JoinKeys ==
    {[on |-> Name(ColA), left_on |-> NoName, right_on |-> NoName],
     [on |-> Name(ColB), left_on |-> NoName, right_on |-> NoName],
     [on |-> Name(ColZ), left_on |-> NoName, right_on |-> NoName],
     [on |-> NoName, left_on |-> Name(ColA), right_on |-> Name(ColB)],
     [on |-> NoName, left_on |-> Name(ColA), right_on |-> Name(ColZ)],
     [on |-> NoName, left_on |-> Name(ColA), right_on |-> NoName]}
JoinKinds == {"inner", "left", "right", "outer"}
\* (column, function) pairs; the mean is asked for the column whose values
\* keep the division exact
AggregateCalls ==
    ({ColA, ColB, ColZ} \X {"count", "sum", "min", "max", "median"})
    \cup {<<ColB, "mean">>}

NextDF ==
    \/ \E n \in RowCounts : CallHead(n)
    \/ \E n \in RowCounts : CallTail(n)
    \/ CallShape
    \/ CallCopy
    \/ \E cond \in Conditions : CallFilter(cond)
    \/ \E column \in {ColA, ColZ}, value \in {PyInt(1), PyNone} :
          CallFilterByValue(column, value)
    \/ \E columns \in ColumnLists : CallSelect(columns)
    \/ \E columns \in {<<ColA>>, <<ColZ>>, <<ColA, ColB>>} : CallDrop(columns)
    \/ \E by \in SortKeys, ascending \in BOOLEAN : CallSort(by, ascending)
    \/ \E column_name \in {ColA, ColC}, values \in NewColumns :
          CallAddColumn(column_name, values)
    \/ \E mapping \in Mappings : CallRenameColumns(mapping)
    \/ \E column \in {ColA, ColB, ColZ} : CallFillnaColumn(column, PyInt(0))
    \/ \E column \in {ColA, ColZ}, target_type \in TargetTypes :
          CallConvertColumnType(column, target_type)
    \/ \E column \in {ColA, ColZ}, decimals \in {0, 2} :
          CallRoundColumn(column, decimals)
    \/ CallRoundColumnAgain
    \/ \E by \in GroupKeys, aggregations \in Aggregations :
          CallGroupByAgg(by, aggregations)
    \/ \E by \in GroupKeys : CallGroupByCount(by)
    \/ \E c \in AggregateCalls : CallAggregate(c[1], c[2])
    \/ \E k \in JoinKeys, how \in JoinKinds :
          CallJoin(k.on, k.left_on, k.right_on, how)
    \/ \E col \in {ColA, ColB, ColC} : AssignColumn(col)

SpecDF == InitDF /\ [][NextDF]_vars

----------------------------------------------------------------------------
(* The text functions applied to one line or one field.                    *)

MaxLineLen == 5
MaxFieldLen == 3
\* lines of separators, quotes and a letter; fields of digits, sign, dot
\* and a letter, with the two fields "007" and "1.2.3"
LineTexts == UNION {Lists({",", "\"", "a"}, n) : n \in 0..MaxLineLen}
FieldTexts ==
    UNION {Lists({"0", "1", ".", "-", "a"}, n) : n \in 0..MaxFieldLen}
    \cup {<<"0", "0", "7">>, <<"1", ".", "2", ".", "3">>}

InitFn ==
    /\ CsvIdle
    /\ DFIdle
    /\ SrvIdle
    /\ fn = "none"
    /\ text \in LineTexts \cup FieldTexts
    /\ ret = <<>>

CallParseCsvLine ==
    /\ fn = "none"
    /\ fn' = "parse_csv_line"
    /\ ret' = parse_csv_line(text, Separator)
    /\ UNCHANGED <<text, csvVars, dfVars, srvVars>>

CallInferType ==
    /\ fn = "none"
    /\ fn' = "infer_type"
    /\ ret' = infer_type(text)
    /\ UNCHANGED <<text, csvVars, dfVars, srvVars>>

\* the value a reader stores for the field text
CallStoreField(skip_type_inference) ==
    /\ fn = "none"
    /\ fn' = IF skip_type_inference THEN "store_text" ELSE "store_inferred"
    /\ ret' = StoredValue(text, skip_type_inference)
    /\ UNCHANGED <<text, csvVars, dfVars, srvVars>>

NextFn ==
    \/ CallParseCsvLine
    \/ CallInferType
    \/ \E skip_type_inference \in BOOLEAN : CallStoreField(skip_type_inference)

SpecFn == InitFn /\ [][NextFn]_vars

-----------------------------------------------------------------------------

(* What a file holds, read off its bytes: the offsets at which lines start *)
(* and the rows its well-formed lines stand for.                           *)

LineStarts(f) ==
    IF f = <<>> THEN {} ELSE {0} \cup {j \in 1..(Len(f) - 1) : f[j] = NL}
RecordStarts(f) == LineStarts(f) \ {0}
LineEnd(f, p) ==
    IF \E j \in (p + 1)..Len(f) : f[j] = NL
    THEN CHOOSE j \in (p + 1)..Len(f) :
             f[j] = NL /\ \A m \in (p + 1)..(j - 1) : f[m] # NL
    ELSE Len(f) + 1
LineAt(f, p) == SubSeq(f, p + 1, LineEnd(f, p) - 1)

RECURSIVE Ascending(_)
Ascending(S) ==
    IF S = {} THEN <<>>
    ELSE LET m == CHOOSE x \in S : \A y \in S : x <= y
         IN <<m>> \o Ascending(S \ {m})

FileColumns(f) == HeaderColumns(LineAt(f, 0), Separator)
HeaderBlank(f) == f = <<>> \/ Strip(LineAt(f, 0)) = <<>>
Accepted(f, p) == LineAccepted(LineAt(f, p), FileColumns(f), Separator)
WellFormedFile(f) ==
    /\ ~HeaderBlank(f)
    /\ f[Len(f)] = NL
    /\ \A p \in RecordStarts(f) : Accepted(f, p)

RowOfLine(f, p, sk) ==
    LET fields == parse_csv_line(Strip(LineAt(f, p)), Separator)
    IN [k \in 1..Len(fields) |-> StoredValue(fields[k], sk)]
\* the rows of the accepted lines among the lines that start in S, in file order
RowsOfLines(f, S, sk) ==
    LET ps == Ascending({p \in S : Accepted(f, p)})
    IN [k \in 1..Len(ps) |-> RowOfLine(f, ps[k], sk)]
ExpectedRows(f, sk) == RowsOfLines(f, RecordStarts(f), sk)

\* the rows of a column dict / of a DataFrame
RowsOfData(data, columns) ==
    [i \in 1..(IF data = <<>> THEN 0 ELSE Len(data[1][2])) |->
        [k \in 1..Len(columns) |-> DictGet(data, columns[k])[i]]]
Rows(o) == RowsOfData(o.data, o.columns)
EqualLengths(data) == Cardinality({Len(data[i][2]) : i \in 1..Len(data)}) <= 1

Count(x, s) == Cardinality({i \in 1..Len(s) : s[i] = x})
Take(s, n) == SubSeq(s, 1, Min2(n, Len(s)))

ParallelDone == pc = "done" /\ call.reader = "read_csv_parallel"

\* C1: read_csv_parallel loses no record: on a well-formed, newline-terminated
\* file, for every worker count, every data record of the file is in the
\* returned table (as often as the file holds it).
C1_NoLoss ==
    (ParallelDone /\ WellFormedFile(file)) =>
        /\ IsDF(out)
        /\ \A r \in {ExpectedRows(file, skip)[k] :
                        k \in 1..Len(ExpectedRows(file, skip))} :
              Count(r, Rows(out)) >= Count(r, ExpectedRows(file, skip))

\* C2: read_csv_parallel duplicates no record: on a well-formed file, for
\* every worker count, no row is in the returned table more often than the
\* file holds its record.
C2_NoDuplication ==
    (ParallelDone /\ WellFormedFile(file) /\ IsDF(out)) =>
        \A i \in 1..Len(Rows(out)) :
            Count(Rows(out)[i], Rows(out))
                <= Count(Rows(out)[i], ExpectedRows(file, skip))

\* C3: worker-count independence: two read_csv_parallel calls on the same
\* well-formed file return identical tables, whatever their worker counts.
C3_WorkerCountIndependence ==
    (ParallelDone /\ prev.n # 0 /\ WellFormedFile(file)) => out = prev.o

\* rows can be matched to records of exp at positions that never go back
RECURSIVE NeverGoesBack(_, _, _, _)
NeverGoesBack(rows, exp, i, j) ==
    IF i > Len(rows) THEN TRUE
    ELSE IF \E m \in j..Len(exp) : exp[m] = rows[i]
         THEN NeverGoesBack(rows, exp, i + 1,
                  CHOOSE m \in j..Len(exp) :
                      exp[m] = rows[i] /\ \A q \in j..(m - 1) : exp[q] # rows[i])
         ELSE FALSE

\* C4: file order is preserved: the rows of the table returned by
\* read_csv_parallel follow the order of their records in the file (read
\* here in its weakest form: a row never comes after a row of a later record).
C4_FileOrder ==
    (ParallelDone /\ WellFormedFile(file) /\ IsDF(out)) =>
        NeverGoesBack(Rows(out), ExpectedRows(file, skip), 1, 1)

\* the lines _parse_csv_chunk reads for a task: those starting inside
\* (start_byte, end_byte), then the next LookaheadLines lines within the
\* byte budget
SmallestN(S, n) ==
    {p \in S : Cardinality({q \in S : q < p}) < n}
LinesRead(f, task) ==
    LET after == {p \in LineStarts(f) : p > task.start_byte}
    IN {p \in after : p < task.end_byte}
       \cup SmallestN({p \in after : /\ p >= task.end_byte
                                      /\ p < task.end_byte + LookaheadBytes},
                      LookaheadLines)

\* C5: malformed rows are recovered locally.  read_csv on a file with a
\* header returns a table holding exactly the rows of the lines with the
\* header's field count (up to nrows), whatever malformed lines lie between
\* them; every worker of read_csv_parallel returns equally long columns
\* holding exactly the rows of such lines among the lines it reads.
C5_MalformedRowsSkipped ==
    /\ (pc = "done" /\ call.reader = "read_csv" /\ ~HeaderBlank(file)) =>
          /\ IsDF(out)
          /\ Rows(out) = IF call.nrows < 0 THEN ExpectedRows(file, skip)
                         ELSE Take(ExpectedRows(file, skip), call.nrows)
    /\ \A i \in 1..Len(results) :
          results[i].done =>
              /\ EqualLengths(results[i].data)
              /\ DictKeys(results[i].data) = call.columns
              /\ RowsOfData(results[i].data, call.columns)
                    = RowsOfLines(file, LinesRead(file, tasks[i]), skip)

\* a worker has read a malformed line and kept the well-formed line after it
C5_Witness ==
    /\ pc = "parsing"
    /\ \E i \in 1..Len(results) :
          /\ results[i].done
          /\ \E p, q \in LinesRead(file, tasks[i]) :
                /\ p < q
                /\ Strip(LineAt(file, p)) # <<>>
                /\ ~Accepted(file, p)
                /\ Accepted(file, q)
                /\ RowOfLine(file, q, skip)
                     = RowsOfData(results[i].data, call.columns)[
                          Len(results[i].data[1][2])]

\* C6: a missing or empty header is fatal: no reader returns a table for a
\* file that is empty or whose first line is blank.
C6_HeaderFatal ==
    (pc = "done" /\ HeaderBlank(file)) => ~IsDF(out)

----------------------------------------------------------------------------
(* Claims about the DataFrame operations *)

Names(seq) == {seq[k] : k \in 1..Len(seq)}
NoRepeats(seq) == \A i, j \in 1..Len(seq) : seq[i] = seq[j] => i = j
WellFormed(t) ==
    /\ NoRepeats(t.columns)
    /\ Names(t.columns) = Names(DictKeys(t.data))
    /\ \A i, j \in 1..Len(t.data) : Len(t.data[i][2]) = Len(t.data[j][2])
Returned == op.name # "none" /\ res.err = "none"
Result == View(heap, res.df)

\* C7: every table is well-formed: the constructed tables and the table a
\* method returns have a column-name list without duplicates that equals the
\* key set of the name -> column mapping, and columns of one length.
C7_WellFormedTables ==
    /\ WellFormed(View(heap, src))
    /\ WellFormed(View(heap, rhs))
    /\ Returned => WellFormed(Result)

\* C8: a method leaves the column names and every column of its input
\* tables as they were, and the table it returns shares no list and no dict
\* with an input, also after the caller has rebound a column of the result.
C8_OwnStorage ==
    op.name # "none" =>
        /\ View(heap, src) = op.self
        /\ View(heap, rhs) = op.other
        /\ res.err = "none" =>
              /\ ListIds(heap, res.df)
                    \cap (ListIds(heap, src) \cup ListIds(heap, rhs)) = {}
              /\ res.df.data \notin {src.data, rhs.data}

\* select has returned a table, the caller has rebound one of its columns
\* to cleaned values, and the column of the source still holds the old ones
C8_Witness ==
    /\ op.name = "select"
    /\ res.err = "none"
    /\ op.assigned # <<>>
    /\ DictGet(Result.data, op.assigned[1])
          # DictGet(View(heap, src).data, op.assigned[1])
    /\ DictGet(View(heap, src).data, op.assigned[1])
          = DictGet(op.self.data, op.assigned[1])

\* the column names a call refers to, in the order the method checks them
Referenced ==
    CASE op.name \in {"select", "drop"} -> op.args.columns
      [] op.name \in {"sort", "groupby_agg", "groupby_count"} -> op.args.by
      [] op.name \in {"filter_by_value", "fillna_column", "convert_column_type",
                      "round_column"} -> <<op.args.column>>
      [] OTHER -> <<>>
FailFastOps ==
    {"select", "filter_by_value", "sort", "groupby_agg", "groupby_count",
     "fillna_column", "convert_column_type", "round_column"}
JoinHasKeys ==
    op.args.on.some \/ (op.args.left_on.some /\ op.args.right_on.some)
LeftKey == IF op.args.on.some THEN op.args.on.name ELSE op.args.left_on.name
RightKey == IF op.args.on.some THEN op.args.on.name ELSE op.args.right_on.name
FailedNaming(name) ==
    /\ res.err = "KeyError"
    /\ res.arg = name
    /\ res.df = NoObj
    /\ View(heap, src) = op.self
    /\ View(heap, rhs) = op.other

\* C9: select, filter_by_value, sort, groupby, fillna_column,
\* convert_column_type and round_column called with a column name the table
\* does not have, and join called with a left key self does not have or a
\* right key other does not have, raise a KeyError naming the first such
\* column, return no table and leave the inputs unchanged, whatever the
\* number of rows.
C9_FailFast ==
    /\ op.name \in FailFastOps =>
          \A k \in 1..Len(Referenced) :
             (/\ Referenced[k] \notin Names(op.self.columns)
              /\ \A j \in 1..(k - 1) : Referenced[j] \in Names(op.self.columns))
             => FailedNaming(Referenced[k])
    /\ (op.name = "join" /\ JoinHasKeys) =>
          /\ LeftKey \notin Names(op.self.columns) => FailedNaming(LeftKey)
          /\ (/\ LeftKey \in Names(op.self.columns)
              /\ RightKey \notin Names(op.other.columns))
             => FailedNaming(RightKey)

\* filter_by_value on a table with two columns and no row has failed on a
\* column the table does not have
C9_Witness ==
    /\ op.name = "filter_by_value"
    /\ op.self.columns = <<ColA, ColB>>
    /\ DFLen(op.self) = 0
    /\ op.args.column \notin Names(op.self.columns)
    /\ res.err = "KeyError"
    /\ res.arg = op.args.column

\* the column lists drawn from the names of a list
DrawnFrom(columns) ==
    {c \in ColumnLists : Names(c) \subseteq Names(columns)}
SelectCalled ==
    /\ op.name = "select"
    /\ op.assigned = <<>>
    /\ Names(op.args.columns) \subseteq Names(op.self.columns)
SelectComposes ==
    /\ res.err = "none"
    /\ \A c \in Names(op.args.columns) :
          DictGet(Result.data, c) = DictGet(op.self.data, c)
    /\ \A c2 \in DrawnFrom(op.args.columns) :
          select(Result, c2) = select(op.self, c2)

\* C10 as stated: select(C1) of existing columns returns exactly the
\* columns C1 in that order with as many rows as the table, the values of
\* the table, and select(C1).select(C2) = select(C2) for C2 drawn from C1.
C10_SelectProjection ==
    SelectCalled =>
        /\ SelectComposes
        /\ Result.columns = op.args.columns
        /\ DFLen(Result) = DFLen(op.self)

\* C10 amended: select(C1) of existing columns returns the columns of C1,
\* each once, in the order of their first mention, with the values of the
\* table, and as many rows as the table when C1 names a column (an empty C1
\* gives the table without columns, which has no rows);
\* select(C1).select(C2) = select(C2) for C2 drawn from C1.
C10_SelectProjectionAmended ==
    SelectCalled =>
        /\ SelectComposes
        /\ Result.columns = Dedup(op.args.columns)
        /\ op.args.columns # <<>> => DFLen(Result) = DFLen(op.self)
        /\ op.args.columns = <<>> => Result = NoTable

\* select of two columns in the reverse of the table's order has returned a
\* table of two rows
C10_Witness ==
    /\ SelectCalled
    /\ op.args.columns = <<ColB, ColA>>
    /\ op.self.columns = <<ColA, ColB>>
    /\ DFLen(op.self) = 2
    /\ res.err = "none"
    /\ Result.columns = <<ColB, ColA>>

Fresh == op.name # "none" /\ op.assigned = <<>>
\* the rows of a table with index in idx, in the order of idx
RowsAt(t, idx) == [k \in 1..Len(idx) |-> Rows(t)[idx[k]]]
Indices(t) == [i \in 1..DFLen(t) |-> i]
Evaluable(cond, t) ==
    cond.kind \in {"all", "nothing"} \/ cond.column \in Names(t.columns)

\* C11: filter(predicate) returns the input's columns and exactly the rows
\* for which the predicate is true, each once and in their input order;
\* filter_by_value(column, value) returns the rows whose value in the column
\* equals value, in the same way.
C11_StableFilter ==
    /\ (Fresh /\ op.name = "filter" /\ Evaluable(op.args.condition, op.self)) =>
          /\ res.err = "none"
          /\ Result.columns = op.self.columns
          /\ Rows(Result) =
                RowsAt(op.self,
                       SelectSeq(Indices(op.self),
                                 LAMBDA i : Holds(op.args.condition,
                                                  RowDict(op.self, i))))
    /\ (/\ Fresh
        /\ op.name = "filter_by_value"
        /\ op.args.column \in Names(op.self.columns)) =>
          /\ res.err = "none"
          /\ Result.columns = op.self.columns
          /\ Rows(Result) =
                RowsAt(op.self,
                       SelectSeq(Indices(op.self),
                                 LAMBDA i : PyEq(DictGet(op.self.data,
                                                         op.args.column)[i],
                                                 op.args.value)))

\* filter_by_value has dropped the first of two rows and kept the second
C11_Witness ==
    /\ Fresh
    /\ op.name = "filter_by_value"
    /\ DFLen(op.self) = 2
    /\ Len(op.self.columns) = 2
    /\ res.err = "none"
    /\ Rows(Result) = <<Rows(op.self)[2]>>
    /\ Rows(op.self)[1] # Rows(op.self)[2]

RowOrders(n) ==
    {p \in [1..n -> 1..n] : \A i, j \in 1..n : p[i] = p[j] => i = j}
\* the key tuple of row i of t
KeyOf(t, by, i) == [k \in 1..Len(by) |-> DictGet(t.data, by[k])[i]]
KeysEqual(x, y) == \A k \in 1..Len(x) : PyEq(x[k], y[k])
\* x comes before y in the lexicographic order of the values
LexLess(x, y) ==
    \E k \in 1..Len(x) :
        /\ \A m \in 1..(k - 1) : PyEq(x[m], y[m])
        /\ PyLt(x[k], y[k]) = "lt"

\* C12: when sort returns, its output has the input's columns and is a
\* permutation of the input rows in which no row comes after a row whose
\* key tuple is lexicographically greater (smaller, when ascending is
\* False), and rows with equal key tuples are in their input order, for
\* both directions.
C12_StableSort ==
    (Fresh /\ op.name = "sort" /\ res.err = "none") =>
        /\ Result.columns = op.self.columns
        /\ \E p \in RowOrders(DFLen(op.self)) :
              /\ Rows(Result) = RowsAt(op.self, p)
              /\ \A i, j \in 1..DFLen(op.self) :
                    i < j =>
                       LET x == KeyOf(op.self, op.args.by, p[i])
                           y == KeyOf(op.self, op.args.by, p[j])
                       IN /\ op.args.ascending => ~LexLess(y, x)
                          /\ ~op.args.ascending => ~LexLess(x, y)
                          /\ KeysEqual(x, y) => p[i] < p[j]

\* a descending sort has moved a row to the front and kept two rows with
\* equal keys and different values in their input order
C12_Witness ==
    /\ Fresh
    /\ op.name = "sort"
    /\ ~op.args.ascending
    /\ op.args.by = <<ColA>>
    /\ res.err = "none"
    /\ DFLen(op.self) = 3
    /\ Rows(Result) = <<Rows(op.self)[2], Rows(op.self)[1], Rows(op.self)[3]>>
    /\ PyEq(Rows(op.self)[1][1], Rows(op.self)[3][1])
    /\ Rows(op.self)[1] # Rows(op.self)[3]

\* C13: add_column(name, values) fails when len(values) is not the row
\* count; otherwise it returns a table in which every column of the input
\* still has its values, also when name is the name of one of them, and
\* in which a new name is the last column and holds values.
C13_AddColumnKeepsColumns ==
    (Fresh /\ op.name = "add_column") =>
        IF Len(op.args.values) # DFLen(op.self)
        THEN res.err = "ValueError" /\ res.df = NoObj
        ELSE /\ res.err = "none"
             /\ \A c \in Names(op.self.columns) :
                   DictGet(Result.data, c) = DictGet(op.self.data, c)
             /\ op.args.column_name \notin Names(op.self.columns) =>
                   /\ Result.columns = Append(op.self.columns, op.args.column_name)
                   /\ DictGet(Result.data, op.args.column_name) = op.args.values

NewNameOf(mapping, col) ==
    IF DictHas(mapping, col) THEN DictGet(mapping, col) ELSE col

\* C14: rename_columns(mapping) returns, for every mapping, a table with as
\* many columns as the input, the column at each position named by the
\* mapping (or as before when the mapping has no entry for it) and holding
\* the values of the input's column at that position.
C14_RenameKeepsColumns ==
    (Fresh /\ op.name = "rename_columns") =>
        /\ res.err = "none"
        /\ Len(Result.columns) = Len(op.self.columns)
        /\ Len(Result.data) = Len(op.self.columns)
        /\ \A k \in 1..Len(op.self.columns) :
              /\ Result.columns[k] = NewNameOf(op.args.mapping, op.self.columns[k])
              /\ DictHas(Result.data, Result.columns[k])
              /\ DictGet(Result.data, Result.columns[k])
                    = DictGet(op.self.data, op.self.columns[k])

\* the value the conversion of v gives when it succeeds, v when it fails
Lenient(v, target_type) ==
    IF v.t = "null" THEN PyNone
    ELSE IF Convert(v, target_type) \in {NoValue, Overflow} THEN v
    ELSE Convert(v, target_type)

\* C15: convert_column_type(column, target_type) on an existing column
\* raises no error and returns a table with the input's row count, its other
\* columns unchanged, and in the column every Null still Null and every other
\* value replaced by its conversion when that succeeds and kept when it
\* fails (an empty string may also become Null).
C15_LenientConversion ==
    (Fresh /\ op.name = "convert_column_type"
           /\ op.args.column \in Names(op.self.columns)) =>
        /\ res.err = "none"
        /\ DFLen(Result) = DFLen(op.self)
        /\ Result.columns = op.self.columns
        /\ \A c \in Names(op.self.columns) \ {op.args.column} :
              DictGet(Result.data, c) = DictGet(op.self.data, c)
        /\ \A i \in 1..DFLen(op.self) :
              LET v == DictGet(op.self.data, op.args.column)[i]
                  w == DictGet(Result.data, op.args.column)[i]
              IN \/ w = Lenient(v, op.args.target_type)
                 \/ v = PyStr(<<>>) /\ w = PyNone

LastRows(s, n) == SubSeq(s, Len(s) - Min2(n, Len(s)) + 1, Len(s))

\* C16: for n >= 0 and a table with R rows, head(n) returns the first
\* min(n, R) rows and tail(n) the last min(n, R) rows, in the input's order
\* and with all its columns; shape() returns (R, number of columns).
C16_HeadTailClamp ==
    /\ (Fresh /\ op.name \in {"head", "tail"} /\ op.args.n >= 0) =>
          /\ res.err = "none"
          /\ Result.columns = op.self.columns
          /\ Rows(Result) = IF op.name = "head"
                            THEN Take(Rows(op.self), op.args.n)
                            ELSE LastRows(Rows(op.self), op.args.n)
    /\ (Fresh /\ op.name = "shape") =>
          /\ res.err = "value"
          /\ res.value = <<DFLen(op.self), Len(op.self.columns)>>

\* the grouping tuple of row i, and the rows at which a tuple is first seen
GroupKey(t, by, i) == [k \in 1..Len(by) |-> DictGet(t.data, by[k])[i]]
FirstSeen(t, by) ==
    SelectSeq(Indices(t),
              LAMBDA i : \A j \in 1..(i - 1) :
                            ~TupleEq(GroupKey(t, by, j), GroupKey(t, by, i)))
RECURSIVE SumInts(_)
SumInts(s) == IF s = <<>> THEN 0 ELSE s[1].v + SumInts(SubSeq(s, 2, Len(s)))
Grouped == Fresh /\ op.name \in {"groupby_agg", "groupby_count"} /\ res.err = "none"

\* C17: the table groupby(by).agg(...) or groupby(by).count() returns has one
\* row per distinct tuple of grouping-column values of the input, in the
\* order in which the tuples are first seen from the top, each row holding
\* its tuple in the grouping columns; the counts of count() sum to the
\* input's row count.
C17_OneRowPerGroup ==
    Grouped =>
        LET first == FirstSeen(op.self, op.args.by) IN
        /\ DFLen(Result) = Len(first)
        /\ \A g \in 1..Len(first) :
              GroupKey(Result, op.args.by, g) = GroupKey(op.self, op.args.by, first[g])
        /\ op.name = "groupby_count" =>
              /\ \A g \in 1..DFLen(Result) :
                    DictGet(Result.data, CountName)[g].t = "int"
              /\ SumInts(DictGet(Result.data, CountName)) = DFLen(op.self)

\* a + b of two numbers
Plus(a, b) ==
    IF a.t = "int" /\ b.t = "int" THEN PyInt(a.v + b.v)
    ELSE IF PyInf \in {a, b} THEN PyInf
    ELSE PyFloat(Num(a)[1] * Num(b)[2] + Num(b)[1] * Num(a)[2],
                 Num(a)[2] * Num(b)[2])
\* one pass over the rows 1..i that keeps a total of column col for key
RECURSIVE RunningTotal(_, _, _, _, _)
RunningTotal(t, by, col, key, i) ==
    IF i = 0 THEN PyInt(0)
    ELSE LET before == RunningTotal(t, by, col, key, i - 1)
             v == DictGet(t.data, col)[i]
         IN IF TupleEq(GroupKey(t, by, i), key) /\ Present(v)
            THEN Plus(before, v) ELSE before
GroupRows(t, by, key) ==
    {i \in 1..DFLen(t) : TupleEq(GroupKey(t, by, i), key)}
NoneCounted(t, by, col, key) ==
    \A i \in GroupRows(t, by, key) : ~Present(DictGet(t.data, col)[i])
\* the (column, function) pairs agg was asked for
Asked ==
    IF op.args.aggregations.func # ""
    THEN {<<c, op.args.aggregations.func>> :
             c \in Names(op.self.columns) \ Names(op.args.by)}
    ELSE {op.args.aggregations.items[k] :
             k \in 1..Len(op.args.aggregations.items)}
AggValue(p, g) ==
    LET t == op.self
        by == op.args.by
        key == GroupKey(t, by, FirstSeen(t, by)[g])
        w == DictGet(Result.data, p[1])[g]
    IN /\ p[2] = "sum" => w = RunningTotal(t, by, p[1], key, DFLen(t))
       /\ (p[2] = "sum" /\ NoneCounted(t, by, p[1], key)) => w = PyInt(0)
       /\ (p[2] \in {"mean", "min", "max"} /\ NoneCounted(t, by, p[1], key)) =>
             w = PyNone
       /\ p[2] = "count" => w = PyInt(Cardinality(GroupRows(t, by, key)))
AggReturned == Fresh /\ op.name = "groupby_agg" /\ res.err = "none"

\* C18: in the table agg returns, for every aggregated column and every
\* group: sum is the single-pass running total, kept per grouping tuple, of
\* the group's values that are neither Null nor the empty string, and 0
\* when the group has none; mean, min and max of a group with none are Null;
\* count is the number of rows of the group.
C18_AggregateValues ==
    AggReturned =>
        \A p \in Asked : \A g \in 1..DFLen(Result) : AggValue(p, g)

\* C18, for the aggregated columns that are not grouping columns
C18_AggregateValuesAmended ==
    AggReturned =>
        \A p \in Asked : \A g \in 1..DFLen(Result) :
            p[1] \notin Names(op.args.by) => AggValue(p, g)

\* agg('sum') by a has returned: the group a = 1 has the total 4 of two
\* values of b, the group a = 1.5 has only a Null in b and the total 0
C18_Witness ==
    /\ AggReturned
    /\ op.args.by = <<ColA>>
    /\ op.args.aggregations = [func |-> "sum"]
    /\ op.self.columns = <<ColA, ColB>>
    /\ DictGet(op.self.data, ColB) = <<PyInt(2), PyNone, PyInt(2)>>
    /\ DictGet(Result.data, ColA) = <<PyInt(1), PyFloat(3, 2)>>
    /\ DictGet(Result.data, ColB) = <<PyInt(4), PyInt(0)>>

Unsupported(func_name) == func_name \notin {"count", "sum", "mean", "min", "max"}
Raised == res.err \notin {"none", "value", "pending"}

\* C19: for every table, also one without rows, GroupBy.agg raises an
\* error when it is given a function name outside count, sum, mean, min,
\* max (as the one name for every column or in the mapping), and so does
\* DataFrame.aggregate.
C19_UnsupportedFails ==
    /\ (Fresh /\ op.name = "groupby_agg"
              /\ \/ op.args.aggregations.func # ""
                    /\ Unsupported(op.args.aggregations.func)
                 \/ op.args.aggregations.func = ""
                    /\ \E p \in Asked : Unsupported(p[2])) => Raised
    /\ (Fresh /\ op.name = "aggregate" /\ Unsupported(op.args.func_name)) => Raised

JoinReturned == Fresh /\ op.name = "join" /\ res.err = "none"
KeysMatch(i, j) ==
    PyEq(DictGet(op.self.data, LeftKey)[i], DictGet(op.other.data, RightKey)[j])
\* the pairs (left row, right row) of the left-driven pass; right row 0
\* stands for no match
LeftPass ==
    {<<i, j>> \in (1..DFLen(op.self)) \X (1..DFLen(op.other)) : KeysMatch(i, j)}
    \cup {<<i, 0>> : i \in {i \in 1..DFLen(op.self) :
                              /\ op.args.how \in {"left", "outer"}
                              /\ \A j \in 1..DFLen(op.other) : ~KeysMatch(i, j)}}
PairBefore(q, p) == q[1] < p[1] \/ (q[1] = p[1] /\ q[2] < p[2])
PairAt(k) ==
    CHOOSE p \in LeftPass : Cardinality({q \in LeftPass : PairBefore(q, p)}) = k - 1
\* the right-side columns of the output and the name each has there
RightSide ==
    {c \in Names(op.other.columns) :
        ~(c = RightKey /\ c \in Names(op.self.columns))}
RightName(c) ==
    IF c \in Names(op.self.columns) /\ c # RightKey THEN c \o RightSuffix ELSE c
LargestGroup ==
    LET sizes == {Cardinality({m \in 1..DFLen(op.other) :
                      PyEq(DictGet(op.other.data, RightKey)[m],
                           DictGet(op.other.data, RightKey)[j])}) :
                  j \in 1..DFLen(op.other)}
    IN IF sizes = {} THEN 0 ELSE CHOOSE s \in sizes : \A u \in sizes : u <= s
OnA == [on |-> Name(ColA), left_on |-> NoName, right_on |-> NoName, how |-> "inner"]

\* C20: the rows join returns start with the left-driven pass: for each
\* left row in left order, one row per right row with an equal key (Null
\* equals Null) in right order, holding the left row and that right row;
\* a left row without a match gives one row with every right-side column
\* Null when how is left or outer and no row when how is inner or right.
\* inner and left return nothing else; inner returns at most len(A) times
\* the largest number of right rows with one key, left at least len(A)
\* rows; A = {a: [1, 2]} and B = {a: [1, 1, 3]} give 2 rows for inner, 3 for
\* left.
C20_LeftDrivenPass ==
    JoinReturned =>
        /\ DFLen(Result) >= Cardinality(LeftPass)
        /\ op.args.how \in {"inner", "left"} =>
              DFLen(Result) = Cardinality(LeftPass)
        /\ \A k \in 1..Cardinality(LeftPass) :
              /\ \A c \in Names(op.self.columns) :
                    DictGet(Result.data, c)[k] = DictGet(op.self.data, c)[PairAt(k)[1]]
              /\ \A c \in RightSide :
                    DictGet(Result.data, RightName(c))[k] =
                        IF PairAt(k)[2] = 0 THEN PyNone
                        ELSE DictGet(op.other.data, c)[PairAt(k)[2]]
        /\ op.args.how = "inner" =>
              DFLen(Result) <= DFLen(op.self) * LargestGroup
        /\ op.args.how = "left" => DFLen(Result) >= DFLen(op.self)
        /\ (op.self = ExampleLeft /\ op.other = ExampleRight /\ LeftKey = ColA
               /\ RightKey = ColA) =>
              /\ op.args.how = "inner" => DFLen(Result) = 2
              /\ op.args.how = "left" => DFLen(Result) = 3

\* the left join of the example has returned: key 1 twice, with x and y,
\* then key 2 with a Null for the right-side column
C20_Witness ==
    /\ JoinReturned
    /\ op.self = ExampleLeft
    /\ op.other = ExampleRight
    /\ op.args = [OnA EXCEPT !.how = "left"]
    /\ Result.columns = <<ColA, ColB, ColC>>
    /\ Rows(Result) = << <<PyInt(1), PyStr(<<"a">>), PyStr(<<"x">>)>>,
                         <<PyInt(1), PyStr(<<"a">>), PyStr(<<"y">>)>>,
                         <<PyInt(2), PyStr(<<"b">>), PyNone>> >>

\* the right rows no left row matches, in right-row order
Unmatched ==
    SelectSeq([j \in 1..DFLen(op.other) |-> j],
              LAMBDA j : \A i \in 1..DFLen(op.self) : ~KeysMatch(i, j))

\* C21: when how is right or outer, the rows join returns after the
\* left-driven rows are one row for each right row that no left row matched,
\* in right-row order, with the left key column holding that right row's
\* key, every other left column Null and the right columns holding the
\* right row; a matched right row is not emitted again, and inner and left
\* emit no such row.
C21_RightPass ==
    JoinReturned =>
        LET n == Cardinality(LeftPass) IN
        /\ DFLen(Result) =
              n + (IF op.args.how \in {"right", "outer"} THEN Len(Unmatched) ELSE 0)
        /\ op.args.how \in {"right", "outer"} =>
              \A k \in 1..Len(Unmatched) :
                 /\ \A c \in Names(op.self.columns) :
                       DictGet(Result.data, c)[n + k] =
                          IF c = LeftKey
                          THEN DictGet(op.other.data, RightKey)[Unmatched[k]]
                          ELSE PyNone
                 /\ \A c \in RightSide :
                       DictGet(Result.data, RightName(c))[n + k] =
                          DictGet(op.other.data, c)[Unmatched[k]]

\* the outer join of the example has returned: after the three left-driven
\* rows comes the one unmatched right row, key 3
C21_Witness ==
    /\ JoinReturned
    /\ op.self = ExampleLeft
    /\ op.other = ExampleRight
    /\ op.args = [OnA EXCEPT !.how = "outer"]
    /\ DFLen(Result) = 4
    /\ Rows(Result)[4] = <<PyInt(3), PyNone, PyStr(<<"z">>)>>

JoinCalled ==
    /\ Fresh /\ op.name = "join" /\ JoinHasKeys
    /\ LeftKey \in Names(op.self.columns)
    /\ RightKey \in Names(op.other.columns)
\* what row k of the result holds for left row i and right row j (0: none)
LeftCell(c, i, j) ==
    IF i > 0 THEN DictGet(op.self.data, c)[i]
    ELSE IF c = LeftKey THEN DictGet(op.other.data, RightKey)[j] ELSE PyNone
RightCell(c, j) == IF j > 0 THEN DictGet(op.other.data, c)[j] ELSE PyNone
RowPair(k) ==
    IF k <= Cardinality(LeftPass) THEN PairAt(k)
    ELSE <<0, Unmatched[k - Cardinality(LeftPass)]>>

\* C22: a join on keys the tables have returns a table whose columns have
\* one length and distinct names, in which the left key column appears once,
\* every left column holds left-table values, and every right column that
\* is not the key and has the name of a left column appears under the
\* right-suffixed name and holds right-table values; also when the suffixed
\* name is already a column of the left or the right table.
C22_JoinNaming ==
    JoinCalled =>
        /\ res.err = "none"
        /\ WellFormed(Result)
        /\ Count(LeftKey, Result.columns) = 1
        /\ \A k \in 1..DFLen(Result) :
              /\ \A c \in Names(op.self.columns) :
                    DictGet(Result.data, c)[k] = LeftCell(c, RowPair(k)[1], RowPair(k)[2])
              /\ \A c \in RightSide \cap Names(op.self.columns) :
                    /\ c \o RightSuffix \in Names(Result.columns)
                    /\ DictGet(Result.data, c \o RightSuffix)[k] = RightCell(c, RowPair(k)[2])

Parsed == fn = "parse_csv_line"
Quote == "\""
QuotesBefore(line, i) == Cardinality({j \in 1..(i - 1) : line[j] = Quote})
Quoted(line, i) == QuotesBefore(line, i) % 2 = 1
\* the separators that split the line: those with no open quote before them
Cuts(line) ==
    SelectSeq([i \in 1..Len(line) |-> i],
              LAMBDA i : line[i] = Separator /\ ~Quoted(line, i))
\* the quote at i is the k-th of a run of quotes; counted from the first
\* quote of the run that stands inside quotes, every second one is a
\* literal quote and the others open or close
RunStart(line, i) ==
    CHOOSE p \in 1..i :
        /\ \A j \in p..i : line[j] = Quote
        /\ p = 1 \/ line[p - 1] # Quote
Literal(line, i) ==
    LET p == RunStart(line, i)
        m == (i - p + 1) - (IF Quoted(line, p) THEN 0 ELSE 1)
    IN m >= 2 /\ m % 2 = 0
Kept(line, i) == IF line[i] = Quote THEN Literal(line, i) ELSE TRUE
\* the text of the field between the cuts at a and b
FieldBetween(line, a, b) ==
    LET idx == SelectSeq([i \in 1..Len(line) |-> i],
                         LAMBDA i : a < i /\ i < b /\ Kept(line, i))
    IN [k \in 1..Len(idx) |-> line[idx[k]]]
Bounds(line) == <<0>> \o Cuts(line) \o <<Len(line) + 1>>

\* C23: parse_csv_line(line) returns at least one field (one empty field
\* for the empty line) and one field more than the line has separators
\* outside quotes; field k is the text between the separators k - 1 and k
\* outside quotes, with a separator inside quotes kept, two consecutive
\* quotes inside quotes kept as one quote and every other quote removed;
\* after a quote that is never closed the rest of the line is one field.
C23_ParseCsvLine ==
    Parsed =>
        /\ Len(ret) >= 1
        /\ text = <<>> => ret = <<<<>>>>
        /\ Len(ret) = 1 + Len(Cuts(text))
        /\ \A k \in 1..Len(ret) :
              ret[k] = FieldBetween(text, Bounds(text)[k], Bounds(text)[k + 1])

\* the line "a,""a has been parsed: the separator stands inside quotes, the
\* two quotes after it are a literal quote, and the quote is never closed
C23_Witness ==
    /\ Parsed
    /\ text = <<Quote, "a", ",", Quote, Quote>>
    /\ ret = << <<"a", ",", Quote>> >>

Inferred == fn \in {"infer_type", "store_inferred"}
LooksNumeric(s) ==
    \/ s[1] \in Digits
    \/ Len(s) > 1 /\ s[1] = "-" /\ s[2] \in Digits
HasDot(s) == \E i \in 1..Len(s) : s[i] = "."
\* the digits of a decimal literal: the text without its sign and its dot
Body(s) == SelectSeq(s, LAMBDA c : c \notin {"-", "."})
Literal10(s) ==
    /\ \A i \in 1..Len(s) : s[i] \in Digits \cup {"-", "."}
    /\ \A i \in 2..Len(s) : s[i] # "-"
    /\ Cardinality({i \in 1..Len(s) : s[i] = "."}) <= 1
RECURSIVE PlaceValue(_, _)
PlaceValue(s, i) ==
    IF i > Len(s) THEN 0
    ELSE DigitVal(s[i]) * Pow10(Len(s) - i) + PlaceValue(s, i + 1)
Signed(s, n) == IF s[1] = "-" THEN 0 - n ELSE n
AfterDot(s) == Len(s) - (CHOOSE i \in 1..Len(s) : s[i] = ".")

Rounded == Fresh /\ op.name = "round_column" /\ res.err = "none"
RoundedTwice == op.name = "round_column_again" /\ op.assigned = <<>>

\* C25: round_column(c, d) returns the input's columns in their order, with
\* every other column as it was and, in column c, every Text and Null value
\* as it was and a number in the place of every number; applied to its own
\* result with the same c and d it returns a table equal to that result.
C25_RoundIdempotent ==
    /\ Rounded =>
          /\ Result.columns = op.self.columns
          /\ \A c \in Names(op.self.columns) \ {op.args.column} :
                DictGet(Result.data, c) = DictGet(op.self.data, c)
          /\ DFLen(Result) = DFLen(op.self)
          /\ \A i \in 1..DFLen(op.self) :
                LET v == DictGet(op.self.data, op.args.column)[i]
                    w == DictGet(Result.data, op.args.column)[i]
                IN IF IsNum(v) THEN IsNum(w) /\ w.t = v.t ELSE w = v
    /\ RoundedTwice =>
          /\ res.err = "none"
          /\ Result = op.first

\* round_column('a', 0) has turned 1.5 into 2.0 and left 'x' alone, and the
\* second application has returned the same table
C25_Witness ==
    /\ RoundedTwice
    /\ op.args = [column |-> ColA, decimals |-> 0]
    /\ DictGet(op.self.data, ColA) = <<PyFloat(3, 2), PyStr(<<"x">>)>>
    /\ DictGet(op.first.data, ColA) = <<PyFloat(2, 1), PyStr(<<"x">>)>>
    /\ Result = op.first

\* the column col of the worker results 1..k, one after the other
RECURSIVE Concatenated(_, _)
Concatenated(col, k) ==
    IF k = 0 THEN <<>>
    ELSE Concatenated(col, k - 1) \o DictGet(results[k].data, col)
WorkerRows(k) == Len(DictGet(results[k].data, call.columns[1]))

\* C26: whatever the order in which the workers of read_csv_parallel
\* return, the table exists only when every worker has returned; each of
\* its columns is the workers' columns one after the other in sub-range
\* order, so its length is the sum of the workers' row counts and every
\* position holds a worker's value; and a second call with the same worker
\* count returns the same table.
C26_FanIn ==
    ParallelDone =>
        /\ \A i \in 1..Len(results) : results[i].done
        /\ Len(results) = call.n
        /\ IsDF(out) =>
              /\ out.columns = call.columns
              /\ \A k \in 1..Len(call.columns) :
                    /\ DictGet(out.data, call.columns[k]) =
                          Concatenated(call.columns[k], call.n)
                    /\ Len(DictGet(out.data, call.columns[k])) =
                          SumSeq([i \in 1..call.n |-> WorkerRows(i)])
        /\ prev.n = call.n => out = prev.o

\* three workers have returned, the first two with rows that differ; the
\* table holds the first worker's rows and then the second's, and the call
\* before it, with three workers as well, gave the same table
C26_Witness ==
    /\ ParallelDone
    /\ call.n = 3
    /\ prev.n = 3
    /\ IsDF(out)
    /\ WorkerRows(1) >= 1
    /\ WorkerRows(2) >= 1
    /\ RowsOfData(results[1].data, call.columns)[1]
          # RowsOfData(results[2].data, call.columns)[1]
    /\ Rows(out)[WorkerRows(1) + 1] = RowsOfData(results[2].data, call.columns)[1]

SortCalled ==
    /\ Fresh /\ op.name = "sort"
    /\ \A k \in 1..Len(op.args.by) : op.args.by[k] \in Names(op.self.columns)
FirstKey(t, i) == DictGet(t.data, op.args.by[1])[i]
IsNull(v) == v.t = "null"
MixedKey ==
    /\ \E i \in 1..DFLen(op.self) : IsNull(FirstKey(op.self, i))
    /\ \E i \in 1..DFLen(op.self) : ~IsNull(FirstKey(op.self, i))

\* C27: sort on a key column that holds Null and non-null values returns
\* a table, without an error, in which the rows with a Null key are all
\* before or all after the rows with a non-null key.
C27_NullOrder ==
    (SortCalled /\ MixedKey) =>
        /\ res.err = "none"
        /\ \/ \A i, j \in 1..DFLen(Result) :
                 (IsNull(FirstKey(Result, i)) /\ ~IsNull(FirstKey(Result, j))) => i < j
           \/ \A i, j \in 1..DFLen(Result) :
                 (IsNull(FirstKey(Result, i)) /\ ~IsNull(FirstKey(Result, j))) => i > j

-----------------------------------------------------------------------------
(* The server process: the startup load, the cached loaders called by the  *)
(* request threads, and /status.  A Table is identified by the number of   *)
(* the read_csv_parallel run on its dataset that built it.                 *)

\* the place in Loaders of the first dataset whose file is missing, or
\* Len(Loaders) + 1 when every file is there: where initialize_all_data stops
FirstAbsent(ex) ==
    LET missing == {i \in 1..Len(Loaders) : ~ex[Loaders[i]]}
    IN  IF missing = {} THEN Len(Loaders) + 1
        ELSE CHOOSE i \in missing : \A j \in missing : i <= j

\* initialize_all_data: the four loaders in order up to the first that
\* raises; the flag is set when all four returned, the error kept otherwise
initialize_all_data ==
    IF data_loaded
    THEN UNCHANGED <<cache, parses, data_loaded, loading_error>>
    ELSE LET stop == FirstAbsent(exists)
             returned == {Loaders[i] : i \in 1..(stop - 1)}
             read == {d \in returned : cache[d] = 0}
         IN  /\ parses' = [d \in Datasets |->
                              IF d \in read THEN parses[d] + 1 ELSE parses[d]]
             /\ cache' = [d \in Datasets |->
                              IF d \in read THEN parses[d] + 1 ELSE cache[d]]
             /\ data_loaded' = (stop > Len(Loaders))
             /\ loading_error' =
                    IF stop > Len(Loaders) THEN "None" ELSE Loaders[stop]

\* the startup handler: initialize_all_data with its exception swallowed, after
\* which the server accepts requests
load_data_on_startup ==
    /\ phase = "startup"
    /\ initialize_all_data
    /\ phase' = "serving"
    /\ UNCHANGED <<exists, thr, status, csvVars, dfVars, fnVars>>

\* a route handler on thread t calls the cached loader d: the lookup of
\* lru_cache, which returns the Table held or goes on to the loader's body
CacheLookup(t, d) ==
    /\ phase = "serving"
    /\ thr[t].pc = "idle"
    /\ thr' = [thr EXCEPT ![t] =
                  IF cache[d] # 0
                  THEN [pc |-> "idle", loader |-> d, got |-> cache[d],
                        err |-> "none"]
                  ELSE [pc |-> "miss", loader |-> d, got |-> 0, err |-> "none"]]
    /\ UNCHANGED <<exists, cache, parses, data_loaded, loading_error, phase,
                   status, csvVars, dfVars, fnVars>>

\* the body of the loader after a miss: FileNotFoundError when the file is
\* missing (the route answers 500), a run of read_csv_parallel otherwise
LoaderBody(t) ==
    LET d == thr[t].loader
    IN  /\ thr[t].pc = "miss"
        /\ IF ~exists[d]
           THEN /\ thr' = [thr EXCEPT ![t] =
                              [pc |-> "idle", loader |-> d, got |-> 0,
                               err |-> "FileNotFoundError"]]
                /\ UNCHANGED parses
           ELSE /\ parses' = [parses EXCEPT ![d] = @ + 1]
                /\ thr' = [thr EXCEPT ![t] =
                              [pc |-> "parsed", loader |-> d,
                               got |-> parses[d] + 1, err |-> "none"]]
        /\ UNCHANGED <<exists, cache, data_loaded, loading_error, phase,
                       status, csvVars, dfVars, fnVars>>

\* lru_cache after the body returned: the Table is stored unless the key was
\* added meanwhile, and the caller gets the Table its own call built
CacheStore(t) ==
    LET d == thr[t].loader
    IN  /\ thr[t].pc = "parsed"
        /\ cache' = IF cache[d] = 0 THEN [cache EXCEPT ![d] = thr[t].got]
                    ELSE cache
        /\ thr' = [thr EXCEPT ![t].pc = "idle"]
        /\ UNCHANGED <<exists, parses, data_loaded, loading_error, phase,
                       status, csvVars, dfVars, fnVars>>

\* GET /status
get_status ==
    /\ phase = "serving"
    /\ status' = IF data_loaded
                 THEN [ready |-> TRUE, error |-> "absent"]
                 ELSE [ready |-> FALSE,
                       error |-> IF loading_error # "None" THEN loading_error
                                 ELSE "Data is still loading..."]
    /\ UNCHANGED <<exists, cache, parses, data_loaded, loading_error, phase,
                   thr, csvVars, dfVars, fnVars>>

\* a missing dataset file is generated while the process runs
CreateFile(d) ==
    /\ phase # "off"
    /\ ~exists[d]
    /\ exists' = [exists EXCEPT ![d] = TRUE]
    /\ UNCHANGED <<cache, parses, data_loaded, loading_error, phase, thr,
                   status, csvVars, dfVars, fnVars>>

InitSrv ==
    /\ CsvIdle
    /\ DFIdle
    /\ FnIdle
    /\ exists \in [Datasets -> BOOLEAN]
    /\ cache = [d \in Datasets |-> 0]
    /\ parses = [d \in Datasets |-> 0]
    /\ data_loaded = FALSE
    /\ loading_error = "None"
    /\ phase = "startup"
    /\ thr = [t \in Threads |-> NoRequest]
    /\ status = NoStatus

NextSrv ==
    \/ load_data_on_startup
    \/ \E t \in Threads, d \in Datasets : CacheLookup(t, d)
    \/ \E t \in Threads : LoaderBody(t)
    \/ \E t \in Threads : CacheStore(t)
    \/ get_status
    \/ \E d \in Datasets : CreateFile(d)

SpecSrv == InitSrv /\ [][NextSrv]_vars

-----------------------------------------------------------------------------
(* C28 *)

\* thread t has a Table back from the cached loader d
GotTable(t, d) ==
    /\ thr[t].pc = "idle"
    /\ thr[t].loader = d
    /\ thr[t].err = "none"

\* C28: each dataset file is parsed at most once in the process:
\* read_csv_parallel has run at most once for every dataset, and the calls
\* of a loader that returned, on whichever threads, returned the same Table
C28_ParsedOnce ==
    \A d \in Datasets :
        /\ parses[d] <= 1
        /\ \A t, u \in Threads :
               GotTable(t, d) /\ GotTable(u, d) => thr[t].got = thr[u].got

-----------------------------------------------------------------------------
(* C29 *)

\* all four datasets are held in their caches
AllCached == \A d \in Datasets : cache[d] # 0

\* C29: in every state the flag read by is_data_loaded is True exactly when
\* all four datasets are held in their caches, and a response of /status says
\* ready exactly when they are held at the time of the response
C29_LoadedFlag ==
    /\ [](data_loaded <=> AllCached)
    /\ [][status' # status => (status'.ready <=> AllCached')]_vars

-----------------------------------------------------------------------------
(* C30 *)

\* C30: no analytics request is handled before initialize_all_data has
\* completed successfully: a thread that has taken a request finds the flag
\* of the completed startup load set
C30_ReadyBeforeRequests ==
    \A t \in Threads : thr[t] # NoRequest => data_loaded

====
